---- MODULE Spec2Model ----
(***************************************************************************)
(* Model of the Snask native runtime (src/src/runtime.c): the Value        *)
(* model, the JSON serializer and the Blaze HTTP server loop.              *)
(*                                                                         *)
(* C strings are modelled as sequences of pieces [t, n].                   *)
(*   - a one-byte atom t (AtomLen(t) = 1) with n >= 1 is the byte t        *)
(*     repeated n times (run-length encoding keeps the real buffer         *)
(*     capacities of the source checkable);                                *)
(*   - a literal atom t (AtomLen(t) > 1) with 1 <= n <= AtomLen(t) is the  *)
(*     first n bytes of the literal t; n = AtomLen(t) is the whole         *)
(*     literal.  Literal atoms contain none of the bytes the code searches *)
(*     for (space, '?', and the escapes of the JSON writer) except the     *)
(*     CRLF atom, which the code searches as a unit.                       *)
(***************************************************************************)
EXTENDS Integers, Sequences, FiniteSets, TLC

\* ------------------------------------------------------------------------
\* Bounds of the model
\* ------------------------------------------------------------------------
\* number of connections the accept loop is followed through
MaxConns == 2
\* number of failed accept calls the loop is followed through
MaxAcceptErrs == 1
\* number of thread_spawn calls and of thread API calls a script makes
MaxSpawns == 2
MaxThreadOps == 4
\* number of threads that call the allocation tracker, and of calls they make
MaxGcThreads == 2
MaxGcCalls == 3
\* JSON engine: length of the texts enumerated, re-serialisations of a parsed Value, array calls
MaxTextLen == 3
MaxJsonRounds == 1
MaxSjsonOps == 2
\* Helpers: length of the query strings and Cookie headers enumerated
MaxQsLen == 4
\* length of the expressions calc_eval is called on
MaxExprLen == 3

\* ------------------------------------------------------------------------
\* Program constants (buffer capacities of runtime.c)
\* ------------------------------------------------------------------------
ReqCap == 16384
PathKeyCap == 1024
KeyCap == 1200
HeaderCap512 == 512
HeaderCap768 == 768
ExtraCap == 1024
LocationCap == 512
SymCap == 512
\* first capacity of the registry of the allocation tracker
GcFirstCap == 1024
TargetCap == 2048

\* ------------------------------------------------------------------------
\* C strings
\* ------------------------------------------------------------------------
CRLF == "\r\n"

\* byte length of the literal atoms; every other atom is one byte
AtomLen(t) ==
    CASE t = "\r\n" -> 2
      [] t = "GET" -> 3
      [] t = "POST" -> 4
      [] t = "PUT" -> 3
      [] t = "PATCH" -> 5
      [] t = "DELETE" -> 6
      [] t = "HEAD" -> 4
      [] t = "HTTP/1.1" -> 8
      [] t = "HTTP/1.1 " -> 9
      [] t = "Host" -> 4
      [] t = "Cookie" -> 6
      [] t = "cookie" -> 6
      [] t = "Content-Length" -> 14
      [] t = "content-length" -> 14
      [] t = "OK" -> 2
      [] t = "Found" -> 5
      [] t = "Bad Request" -> 11
      [] t = "Not Found" -> 9
      [] t = "Error" -> 5
      [] t = "Content-Type: " -> 14
      [] t = "Content-Length: " -> 16
      [] t = "Connection: close\r\n" -> 19
      [] t = "Location: " -> 10
      [] t = "Set-Cookie: " -> 12
      [] t = "text/plain; charset=utf-8" -> 25
      [] t = "application/json; charset=utf-8" -> 31
      [] t = "null" -> 4
      [] t = "true" -> 4
      [] t = "false" -> 5
      [] t = "handler" -> 7
      [] t = "body" -> 4
      [] t = "json" -> 4
      [] t = "status" -> 6
      [] t = "content_type" -> 12
      [] t = "redirect" -> 8
      [] t = "header" -> 6
      [] t = "cookie" -> 6
      [] t = "ping" -> 4
      [] t = "pong" -> 4
      [] t = "bare" -> 4
      [] t = "missing" -> 7
      [] t = "X-A: 1" -> 6
      [] t = "sid=1" -> 5
      [] t = "x/y" -> 3
      [] t = "0x" -> 2
      [] t = "inf" -> 3
      [] t = "-inf" -> 4
      [] t = "nan" -> 3
      \* messages of the JSON engine (UTF-8 byte lengths; the atoms are spelled without accents)
      [] t = "Esperado '\"' no inicio da string JSON." -> 39
      [] t = "Escape \\u invalido em string JSON." -> 35
      [] t = "Escape invalido em string JSON." -> 32
      [] t = "String JSON nao terminada." -> 27
      [] t = "Esperado '{'." -> 13
      [] t = "Esperado ':' apos chave do objeto JSON." -> 40
      [] t = "Esperado ',' ou '}' em objeto JSON." -> 35
      [] t = "Objeto JSON nao terminado." -> 27
      [] t = "Esperado '['." -> 13
      [] t = "Esperado ',' ou ']' em array JSON." -> 34
      [] t = "Array JSON nao terminado." -> 26
      [] t = "Numero JSON invalido." -> 23
      [] t = "JSON vazio." -> 11
      [] t = "Token inesperado no JSON." -> 25
      [] t = "Conteudo extra apos o JSON." -> 29
      [] t = "ok" -> 2
      [] t = "value" -> 5
      [] t = "error" -> 5
      [] t = "path_get: alvo nao e objeto/array." -> 36
      [] t = "path_get: segmento vazio." -> 25
      [] t = "path_get: segmento '" -> 20
      [] t = "' nao encontrado." -> 18
      [] OTHER -> 1

\* the whole literal (or the single byte) t
Str(t) == << [t |-> t, n |-> AtomLen(t)] >>

\* the byte c repeated k times
Rep(c, k) == IF k <= 0 THEN << >> ELSE << [t |-> c, n |-> k] >>

RECURSIVE strlen(_)
strlen(s) == IF s = << >> THEN 0 ELSE Head(s).n + strlen(Tail(s))

\* concatenation; adjacent runs of the same byte are merged
Cat(a, b) ==
    IF a = << >> THEN b
    ELSE IF b = << >> THEN a
    ELSE LET x == a[Len(a)]
             y == b[1]
         IN  IF x.t = y.t /\ AtomLen(x.t) = 1
             THEN SubSeq(a, 1, Len(a) - 1) \o << [t |-> x.t, n |-> x.n + y.n] >> \o Tail(b)
             ELSE a \o b

RECURSIVE CatAll(_)
CatAll(ss) == IF ss = << >> THEN << >> ELSE Cat(Head(ss), CatAll(Tail(ss)))

\* the first k bytes of s (all of s when it is shorter)
RECURSIVE Take(_, _)
Take(s, k) ==
    IF k <= 0 \/ s = << >> THEN << >>
    ELSE IF Head(s).n <= k THEN Cat(<< Head(s) >>, Take(Tail(s), k - Head(s).n))
    ELSE << [t |-> Head(s).t, n |-> k] >>

\* the piece p holds a whole occurrence of the atom c
Hit(p, c) == p.t = c /\ p.n >= AtomLen(c)

\* strchr(s, c) != NULL (strstr for the CRLF atom)
HasChr(s, c) == \E i \in 1..Len(s) : Hit(s[i], c)

FirstChr(s, c) == CHOOSE i \in 1..Len(s) : Hit(s[i], c) /\ \A j \in 1..(i - 1) : ~Hit(s[j], c)

\* the bytes of s before the first c
BeforeChr(s, c) == IF HasChr(s, c) THEN SubSeq(s, 1, FirstChr(s, c) - 1) ELSE s

\* the bytes of s after the first c: strchr(s, c) + AtomLen(c)
AfterChr(s, c) ==
    LET i == FirstChr(s, c)
    IN  IF AtomLen(c) = 1 /\ s[i].n > 1
        THEN << [t |-> c, n |-> s[i].n - 1] >> \o SubSeq(s, i + 1, Len(s))
        ELSE SubSeq(s, i + 1, Len(s))

\* s ends with the bytes of suf
EndsWith(s, suf) ==
    /\ Len(s) >= Len(suf)
    /\ SubSeq(s, Len(s) - Len(suf) + 1, Len(s)) = suf

StartsWith(s, pre) ==
    /\ Len(s) >= Len(pre)
    /\ SubSeq(s, 1, Len(pre)) = pre

\* snprintf(buf, cap, ...) keeps at most cap - 1 bytes of the formatted text
snprintf(cap, text) == Take(text, cap - 1)

\* strncat(dst, src, n) appends at most n bytes of src
strncat(dst, src, n) == Cat(dst, Take(src, n))

Digit(d) == CASE d = 0 -> "0" [] d = 1 -> "1" [] d = 2 -> "2" [] d = 3 -> "3"
              [] d = 4 -> "4" [] d = 5 -> "5" [] d = 6 -> "6" [] d = 7 -> "7"
              [] d = 8 -> "8" [] d = 9 -> "9"

\* printf("%d", n)
RECURSIVE FmtD(_)
FmtD(n) ==
    LET a == IF n < 0 THEN 0 - n ELSE n
        sign == IF n < 0 THEN Str("-") ELSE << >>
    IN  IF a < 10 THEN Cat(sign, Str(Digit(a)))
        ELSE Cat(Cat(sign, FmtD(a \div 10)), Str(Digit(a % 10)))

\* ------------------------------------------------------------------------
\* Values
\* ------------------------------------------------------------------------
make_nil == [tag |-> "NIL", num |-> 0, ptr |-> << >>]
make_num_val(n) == [tag |-> "NUM", num |-> n, ptr |-> << >>]
make_bool(b) == [tag |-> "BOOL", num |-> IF b THEN 1 ELSE 0, ptr |-> << >>]
make_str(s) == [tag |-> "STR", num |-> 0, ptr |-> s]
\* an Object is the sequence of its (names[i], values[i]) entries
make_obj(entries) == [tag |-> "OBJ", num |-> 0, ptr |-> entries]
Entry(k, v) == [name |-> k, value |-> v]

\* A Number is a double.  num holds it when it is an integer; a Number that is not an integer
\* carries the field fp: cls "dec" is the finite decimal num * 10^exp (num not divisible by
\* 10), and cls "inf", "-inf", "nan" are the non-finite doubles.
make_num_fp(cls, m, e) == [tag |-> "NUM", num |-> m, ptr |-> << >>, fp |-> [cls |-> cls, exp |-> e]]
IsFp(v) == "fp" \in DOMAIN v

RECURSIVE Pow10(_)
Pow10(k) == IF k <= 0 THEN 1 ELSE 10 * Pow10(k - 1)

\* number of decimal digits of n >= 0
RECURSIVE NumDigits(_)
NumDigits(n) == IF n < 10 THEN 1 ELSE 1 + NumDigits(n \div 10)

\* n >= 0 printed with exactly w digits
PadD(n, w) == Cat(Rep("0", w - NumDigits(n)), FmtD(n))

\* m * 10^e with the trailing zeros of m moved into the exponent (m # 0)
RECURSIVE StripZeros(_, _)
StripZeros(m, e) == IF m % 10 = 0 THEN StripZeros(m \div 10, e + 1) ELSE [m |-> m, e |-> e]

\* the precision of "%g": number of significant digits kept
GPrecision == 6

\* a * 10^e (a > 0) rounded to GPrecision significant digits, ties to even
RoundG(a, e) ==
    LET L == NumDigits(a)
        cut == Pow10(L - GPrecision)
        q == a \div cut
        r == a % cut
        up == 2 * r > cut \/ (2 * r = cut /\ q % 2 = 1)
        q1 == IF up THEN q + 1 ELSE q
    IN  IF L <= GPrecision THEN [m |-> a, e |-> e]
        ELSE IF q1 = Pow10(GPrecision) THEN [m |-> Pow10(GPrecision - 1), e |-> e + L - GPrecision + 1]
        ELSE [m |-> q1, e |-> e + L - GPrecision]

\* printf("%g", a * 10^e) for a > 0
FmtGPos(a, e) ==
    LET strip(r) == StripZeros(r.m, r.e)
        \* d is the rounded value, X its decimal exponent
        fmt(d, L, X) ==
            LET absX == IF X < 0 THEN 0 - X ELSE X
                scientific == X < -4 \/ X >= GPrecision
                \* the digits before the point, the digits after it and their number
                int == IF scientific THEN d.m \div Pow10(L - 1)
                       ELSE IF d.e >= 0 THEN d.m
                       ELSE IF X >= 0 THEN d.m \div Pow10(0 - d.e)
                       ELSE 0
                frac == IF scientific THEN d.m % Pow10(L - 1)
                        ELSE IF d.e >= 0 THEN 0
                        ELSE IF X >= 0 THEN d.m % Pow10(0 - d.e)
                        ELSE d.m
                nfrac == IF scientific THEN L - 1 ELSE IF d.e >= 0 THEN 0 ELSE 0 - d.e
            IN  CatAll(<< FmtD(int),
                          IF ~scientific /\ d.e >= 0 THEN Rep("0", d.e) ELSE << >>,
                          IF nfrac > 0 THEN Cat(Str("."), PadD(frac, nfrac)) ELSE << >>,
                          IF scientific
                          THEN CatAll(<< Str("e"), Str(IF X < 0 THEN "-" ELSE "+"),
                                         PadD(absX, IF absX < 10 THEN 2 ELSE NumDigits(absX)) >>)
                          ELSE << >> >>)
        exp(d) == fmt(d, NumDigits(d.m), NumDigits(d.m) + d.e - 1)
    IN  exp(strip(RoundG(a, e)))

\* snprintf(tmp, 64, "%g", v->num)
FmtG(v) ==
    LET e == IF IsFp(v) THEN v.fp.exp ELSE 0
    IN  IF IsFp(v) /\ v.fp.cls # "dec"
        THEN (IF v.fp.cls = "-0" THEN Cat(Str("-"), Str("0")) ELSE Str(v.fp.cls))
        ELSE IF v.num = 0 THEN Str("0")
        ELSE Cat(IF v.num < 0 THEN Str("-") ELSE << >>,
                 FmtGPos(IF v.num < 0 THEN 0 - v.num ELSE v.num, e))

\* ------------------------------------------------------------------------
\* JSON serializer
\* ------------------------------------------------------------------------
\* the bytes below 0x20 that have no short escape, by atom: SOH = 0x01, DLE = 0x10, DC1 = 0x11
\* (BS is the atom of the byte 0x08)
ControlCode == [SOH |-> 1, DLE |-> 16, DC1 |-> 17]

HexDigit(d) == CASE d < 10 -> Digit(d) [] d = 10 -> "a" [] d = 11 -> "b" [] d = 12 -> "c"
                 [] d = 13 -> "d" [] d = 14 -> "e" [] d = 15 -> "f"

\* printf("%04x", c) for c < 0x10000
Hex4(c) == CatAll(<< Str(HexDigit(c \div 4096)), Str(HexDigit((c \div 256) % 16)),
                    Str(HexDigit((c \div 16) % 16)), Str(HexDigit(c % 16)) >>)

\* the escape the JSON writer emits for k copies of the piece's byte(s)
EscapedPiece(p) ==
    LET \* the letter of the two-byte escape of the byte, "" when it has none
        short == CASE p.t = "\"" -> "\"" [] p.t = "\n" -> "n" [] p.t = "\t" -> "t"
                   [] p.t = "\r" -> "r" [] p.t = "\f" -> "f" [] p.t = "BS" -> "b"
                   [] OTHER -> ""
        one == IF short # "" THEN Cat(Str("\\"), Str(short))
               ELSE CatAll(<< Str("\\"), Str("u"),
                              Hex4(IF p.t \in DOMAIN ControlCode THEN ControlCode[p.t] ELSE 0) >>)
    IN  IF p.t = "\\" THEN Rep("\\", 2 * p.n)
        ELSE IF short # "" \/ p.t \in DOMAIN ControlCode THEN CatAll([i \in 1..p.n |-> one])
        ELSE IF p.t = "\r\n"
             THEN IF p.n = 2 THEN CatAll(<< Str("\\"), Str("r"), Str("\\"), Str("n") >>)
                  ELSE Cat(Str("\\"), Str("r"))
        ELSE << p >>

RECURSIVE EscapeBody(_)
EscapeBody(s) == IF s = << >> THEN << >> ELSE Cat(EscapedPiece(Head(s)), EscapeBody(Tail(s)))

sb_append_json_escaped(s) == CatAll(<< Str("\""), EscapeBody(s), Str("\"") >>)

sb_append_indent(level, indent) == Rep(" ", level * indent)

RECURSIVE json_stringify_into(_, _, _, _)
RECURSIVE json_stringify_entries(_, _, _, _, _)
\* the loop of json_stringify_object_into from entry i on
json_stringify_entries(entries, i, pretty, indent, level) ==
    IF i > Len(entries) THEN << >>
    ELSE CatAll(<< IF pretty THEN sb_append_indent(level + 1, indent) ELSE << >>,
                   sb_append_json_escaped(entries[i].name),
                   Str(":"),
                   IF pretty THEN Str(" ") ELSE << >>,
                   json_stringify_into(entries[i].value, pretty, indent, level + 1),
                   IF i < Len(entries) THEN Str(",") ELSE << >>,
                   IF pretty THEN Str("\n") ELSE << >>,
                   json_stringify_entries(entries, i + 1, pretty, indent, level) >>)

\* a writer that renders an Object as a JSON array
json_stringify_object_as_array(entries, pretty, indent, level) ==
    CatAll(<< Str("["),
              IF pretty /\ Len(entries) > 0 THEN Str("\n") ELSE << >>,
              json_stringify_entries(entries, 1, pretty, indent, level),
              IF pretty /\ Len(entries) > 0 THEN sb_append_indent(level, indent) ELSE << >>,
              Str("]") >>)

json_stringify_object_into(entries, pretty, indent, level) ==
    CatAll(<< Str("{"),
              IF pretty /\ Len(entries) > 0 THEN Str("\n") ELSE << >>,
              json_stringify_entries(entries, 1, pretty, indent, level),
              IF pretty /\ Len(entries) > 0 THEN sb_append_indent(level, indent) ELSE << >>,
              Str("}") >>)

json_stringify_into(v, pretty, indent, level) ==
    IF v.tag = "NUM" THEN snprintf(64, FmtG(v))
    ELSE IF v.tag = "STR" THEN sb_append_json_escaped(v.ptr)
    ELSE IF v.tag = "BOOL" THEN (IF v.num # 0 THEN Str("true") ELSE Str("false"))
    ELSE IF v.tag = "OBJ" THEN json_stringify_object_into(v.ptr, pretty, indent, level)
    ELSE Str("null")

json_stringify(v) == json_stringify_into(v, FALSE, 0, 0)

json_stringify_pretty(v) == json_stringify_into(v, TRUE, 2, 0)

\* ------------------------------------------------------------------------
\* Blaze: request parsing
\* ------------------------------------------------------------------------
NoMethod == "NULL"

\* strncmp(req, "<m> ", strlen(m) + 1) == 0
MethodAt(req, m) ==
    /\ Len(req) >= 2
    /\ req[1] = [t |-> m, n |-> AtomLen(m)]
    /\ req[2].t = " "

blaze_find_method(req) ==
    IF MethodAt(req, "GET") THEN "GET"
    ELSE IF MethodAt(req, "POST") THEN "POST"
    ELSE IF MethodAt(req, "PUT") THEN "PUT"
    ELSE IF MethodAt(req, "PATCH") THEN "PATCH"
    ELSE IF MethodAt(req, "DELETE") THEN "DELETE"
    ELSE NoMethod

\* [ok, path]: the target between the first and the second space of req, cut
\* to out_cap - 1 bytes, then cut at the first '?'
blaze_parse_path(req, out_cap) ==
    IF blaze_find_method(req) = NoMethod THEN [ok |-> FALSE, path |-> << >>]
    ELSE IF ~HasChr(req, " ") THEN [ok |-> FALSE, path |-> << >>]
    ELSE LET p == AfterChr(req, " ")
         IN  IF ~HasChr(p, " ") THEN [ok |-> FALSE, path |-> << >>]
             ELSE LET target == BeforeChr(p, " ")
                      n == IF strlen(target) + 1 > out_cap THEN out_cap - 1 ELSE strlen(target)
                      out_path == Take(target, n)
                  IN  [ok |-> TRUE, path |-> BeforeChr(out_path, "?")]

blaze_parse_target_raw(req, out_cap) ==
    IF ~HasChr(req, " ") THEN [ok |-> FALSE, target |-> << >>]
    ELSE LET p == AfterChr(req, " ")
         IN  IF ~HasChr(p, " ") THEN [ok |-> FALSE, target |-> << >>]
             ELSE LET target == BeforeChr(p, " ")
                      n == IF strlen(target) + 1 > out_cap THEN out_cap - 1 ELSE strlen(target)
                  IN  [ok |-> TRUE, target |-> Take(target, n)]

blaze_extract_query(req) ==
    LET r == blaze_parse_target_raw(req, TargetCap)
    IN  IF ~r.ok THEN << >>
        ELSE IF ~HasChr(r.target, "?") THEN << >>
        ELSE AfterChr(r.target, "?")

blaze_extract_path_only(req) ==
    LET r == blaze_parse_target_raw(req, TargetCap)
    IN  IF ~r.ok THEN Str("/") ELSE BeforeChr(r.target, "?")

\* strncasecmp folds the case of the header names
Lower(t) ==
    CASE t = "Cookie" -> "cookie"
      [] t = "Content-Length" -> "content-length"
      [] t = "Host" -> "host"
      [] OTHER -> t

RECURSIVE SkipSpaces(_)
SkipSpaces(s) == IF s # << >> /\ Head(s).t = " " THEN SkipSpaces(Tail(s)) ELSE s

NoHeader == [found |-> FALSE, value |-> << >>]

\* the scan of the header lines starting at p; value is the rest of the
\* buffer after "<key>:" and the spaces that follow it
RECURSIVE FindHeaderFrom(_, _)
FindHeaderFrom(p, key) ==
    IF p = << >> THEN NoHeader
    ELSE IF ~HasChr(p, CRLF) THEN NoHeader
    ELSE IF Hit(p[1], CRLF) THEN NoHeader
    ELSE IF /\ Len(p) >= 2
            /\ p[1].n = AtomLen(p[1].t)
            /\ Lower(p[1].t) = Lower(key)
            /\ p[2].t = ":"
         THEN [found |-> TRUE, value |-> SkipSpaces(AfterChr(p, ":"))]
    ELSE FindHeaderFrom(AfterChr(p, CRLF), key)

blaze_find_header(req, key) ==
    IF ~HasChr(req, CRLF) THEN NoHeader ELSE FindHeaderFrom(AfterChr(req, CRLF), key)

DigitVal(t) ==
    CASE t = "0" -> 0 [] t = "1" -> 1 [] t = "2" -> 2 [] t = "3" -> 3 [] t = "4" -> 4
      [] t = "5" -> 5 [] t = "6" -> 6 [] t = "7" -> 7 [] t = "8" -> 8 [] t = "9" -> 9
      [] OTHER -> -1

\* the int that atoi returns is kept as two 16-bit halves, so that the arithmetic wraps at
\* 32 bits as (int)strtol(s, NULL, 10) does (for texts whose value is below 2^63)
AtoiStep(acc, d) ==
    LET lo == acc.lo * 10 + d
    IN  [hi |-> (acc.hi * 10 + lo \div 65536) % 65536, lo |-> lo % 65536]

RECURSIVE AtoiRun(_, _, _)
AtoiRun(acc, d, k) == IF k = 0 THEN acc ELSE AtoiRun(AtoiStep(acc, d), d, k - 1)

RECURSIVE AtoiDigits(_, _)
AtoiDigits(s, acc) ==
    IF s = << >> \/ DigitVal(Head(s).t) < 0 THEN acc
    ELSE AtoiDigits(Tail(s), AtoiRun(acc, DigitVal(Head(s).t), Head(s).n))

\* the int held by the two halves, negated when neg
AtoiInt(acc, neg) ==
    LET hi == IF ~neg THEN acc.hi
              ELSE IF acc.lo = 0 THEN (65536 - acc.hi) % 65536 ELSE 65535 - acc.hi
        lo == IF ~neg \/ acc.lo = 0 THEN acc.lo ELSE 65536 - acc.lo
    IN  (IF hi >= 32768 THEN hi - 65536 ELSE hi) * 65536 + lo

\* atoi: optional sign, then the leading decimal digits
atoi(s) ==
    LET neg == s # << >> /\ Head(s) = [t |-> "-", n |-> 1]
    IN  AtoiInt(AtoiDigits(IF neg THEN Tail(s) ELSE s, [hi |-> 0, lo |-> 0]), neg)

blaze_parse_content_length(req) ==
    LET h == blaze_find_header(req, "Content-Length")
    IN  IF ~h.found THEN 0 ELSE atoi(h.value)

blaze_extract_cookie_header(req) ==
    LET h == blaze_find_header(req, "Cookie")
    IN  IF ~h.found THEN << >> ELSE BeforeChr(h.value, CRLF)

\* strstr(req, "\r\n\r\n") != NULL
HasHdrEnd(req) == \E i \in 1..(Len(req) - 1) : Hit(req[i], CRLF) /\ Hit(req[i + 1], CRLF)

HdrEnd(req) == CHOOSE i \in 1..(Len(req) - 1) :
                  /\ Hit(req[i], CRLF) /\ Hit(req[i + 1], CRLF)
                  /\ \A j \in 1..(i - 1) : ~(Hit(req[j], CRLF) /\ Hit(req[j + 1], CRLF))

\* the bytes from hdr_end + 4 to the end of the buffer
AfterHdrEnd(req) == SubSeq(req, HdrEnd(req) + 2, Len(req))

\* have_body: the body bytes buffered so far
HaveBody(req) == IF HasHdrEnd(req) THEN strlen(AfterHdrEnd(req)) ELSE 0

\* the body handed on: the first min(avail, content_len) bytes after the
\* header terminator, "" when there is no terminator or no Content-Length
RequestBody(req, content_len) ==
    IF HasHdrEnd(req) /\ content_len > 0
    THEN LET avail == strlen(AfterHdrEnd(req))
             take == IF avail < content_len THEN avail ELSE content_len
         IN  Take(AfterHdrEnd(req), take)
    ELSE << >>

\* ------------------------------------------------------------------------
\* Blaze: route and field lookup
\* ------------------------------------------------------------------------
\* index of the first entry named key, 0 when there is none
LookupIdx(entries, key) ==
    IF \E i \in 1..Len(entries) : entries[i].name = key
    THEN CHOOSE i \in 1..Len(entries) :
            /\ entries[i].name = key
            /\ \A j \in 1..(i - 1) : entries[j].name # key
    ELSE 0

blaze_route_lookup(entries, path) ==
    LET i == LookupIdx(entries, path)
    IN  [found |-> i # 0, value |-> IF i # 0 THEN entries[i].value ELSE make_nil, idx |-> i]

blaze_obj_lookup(entries, key) ==
    LET i == LookupIdx(entries, key)
    IN  [found |-> i # 0, value |-> IF i # 0 THEN entries[i].value ELSE make_nil]

\* ------------------------------------------------------------------------
\* Blaze: response writing
\* ------------------------------------------------------------------------
TextPlain == Str("text/plain; charset=utf-8")
AppJson == Str("application/json; charset=utf-8")

\* what one call of a send function hands to blaze_send_all: the header
\* buffer and then the body; the arguments of the call are kept beside it
Response(site, status, ct, extra, body, header) ==
    [site |-> site, status |-> status, content_type |-> ct, extra |-> extra,
     body |-> body, header |-> header]

blaze_send_response(site, status, content_type, body) ==
    LET status_text == IF status = 200 THEN "OK"
                       ELSE IF status = 404 THEN "Not Found" ELSE "Error"
        header == snprintf(HeaderCap512,
                     CatAll(<< Str("HTTP/1.1 "), FmtD(status), Str(" "), Str(status_text), Str(CRLF),
                               Str("Content-Type: "), content_type, Str(CRLF),
                               Str("Content-Length: "), FmtD(strlen(body)), Str(CRLF),
                               Str("Connection: close\r\n"),
                               Str(CRLF) >>))
    IN  Response(site, status, content_type, << >>, body, header)

blaze_send_response_extra(site, status, content_type, extra_header_line, body) ==
    LET status_text == IF status = 200 THEN "OK"
                       ELSE IF status = 302 THEN "Found"
                       ELSE IF status = 400 THEN "Bad Request"
                       ELSE IF status = 404 THEN "Not Found" ELSE "Error"
        header == snprintf(HeaderCap768,
                     CatAll(<< Str("HTTP/1.1 "), FmtD(status), Str(" "), Str(status_text), Str(CRLF),
                               Str("Content-Type: "), content_type, Str(CRLF),
                               Str("Content-Length: "), FmtD(strlen(body)), Str(CRLF),
                               extra_header_line,
                               Str("Connection: close\r\n"),
                               Str(CRLF) >>))
    IN  Response(site, status, content_type, extra_header_line, body, header)

\* the strncat calls that append "<header_line>\r\n" and
\* "Set-Cookie: <cookie_line>\r\n" to a buffer of ExtraCap bytes holding
\* extra; a NULL line is has_* = FALSE
AppendHeaderCookie(extra, has_header, header_line, has_cookie, cookie_line) ==
    LET e1 == IF has_header /\ header_line # << >>
              THEN LET a == strncat(extra, header_line, ExtraCap - strlen(extra) - 1)
                   IN  strncat(a, Str(CRLF), ExtraCap - strlen(a) - 1)
              ELSE extra
        e2 == IF has_cookie /\ cookie_line # << >>
              THEN LET a == strncat(e1, Str("Set-Cookie: "), ExtraCap - strlen(e1) - 1)
                       b == strncat(a, cookie_line, ExtraCap - strlen(a) - 1)
                   IN  strncat(b, Str(CRLF), ExtraCap - strlen(b) - 1)
              ELSE e1
    IN  e2

blaze_send_response_headers(site, status, content_type, has_header, header_line, has_cookie, cookie_line, body) ==
    blaze_send_response_extra(site, status, content_type,
        AppendHeaderCookie(<< >>, has_header, header_line, has_cookie, cookie_line), body)

\* ------------------------------------------------------------------------
\* Inputs: the script program, the route table, the clients' requests
\* ------------------------------------------------------------------------
PPing == Cat(Str("/"), Str("ping"))
PMissing == Cat(Str("/"), Str("missing"))
PHandler == Cat(Str("/"), Str("h"))
PNoHandler == Cat(Str("/"), Str("n"))
PJson == Cat(Str("/"), Str("j"))
PRedirect == Cat(Str("/"), Str("r"))
PNumber == Cat(Str("/"), Str("7"))
PLongName == Cat(Str("/"), Str("t"))
PEcho == Cat(Str("/"), Str("e"))
\* the longest path that fits path_key, and a longer one that shares it as
\* a prefix
PLong == Cat(Str("/"), Rep("a", PathKeyCap - 2))
PLonger == Cat(PLong, Str("b"))

\* the functions f_<name> the script program defines
Symbols == { Cat(Str("f"), Cat(Str("_"), Str("h"))),
             Cat(Str("f"), Cat(Str("_"), Str("e"))),
             \* a function whose symbol fills the sym buffer exactly
             Cat(Str("f"), Cat(Str("_"), Rep("h", SymCap - 3))) }

Field(name, opt) == IF opt = << >> THEN << >> ELSE << Entry(Str(name), opt[1]) >>

RedirectOpts == { << >>, << make_str(PPing) >>, << make_str(Rep("u", LocationCap)) >>,
                  << make_num_val(1) >> }
BodyOpts == { << >>, << make_str(Str("pong")) >>, << make_num_val(7) >> }
JsonOpts == { << >>, << make_obj(<< Entry(Str("a"), make_num_val(1)) >>) >> }
StatusOpts == { << >>, << make_num_val(201) >>, << make_num_val(0) >> }
ContentTypeOpts == { << >>, << make_str(Str("x/y")) >>, << make_str(Rep("t", HeaderCap768)) >> }
HeaderOpts == { << >>, << make_str(<< >>) >>, << make_str(Str("X-A: 1")) >>,
                << make_str(Rep("h", ExtraCap)) >> }
CookieOpts == { << >>, << make_str(Str("sid=1")) >>, << make_str(Rep("c", ExtraCap)) >> }

ResponseObjects ==
    { make_obj(Field("redirect", rd) \o Field("body", bd) \o Field("json", js)
               \o Field("status", st) \o Field("content_type", ct)
               \o Field("header", hd) \o Field("cookie", ck)) :
        rd \in RedirectOpts, bd \in BodyOpts, js \in JsonOpts, st \in StatusOpts,
        ct \in ContentTypeOpts, hd \in HeaderOpts, ck \in CookieOpts }

\* what a script handler may return
HandlerReturns ==
    ResponseObjects
    \cup { make_nil, make_num_val(7), make_bool(TRUE), make_str(Str("pong")),
           make_obj(<< Entry(Str("handler"), make_str(Str("h"))) >>) }

\* what the script function f_e returns: a String or nil
EchoReturns == { make_str(Str("pong")), make_nil }

MethodKey(m, path) == CatAll(<< Str(m), Str(" "), path >>)

RouteTables ==
    { << Entry(MethodKey("GET", PPing), make_str(Str("pong"))) >>,
      << Entry(PPing, make_str(Str("bare"))),
         Entry(MethodKey("GET", PPing), make_str(Str("pong"))),
         Entry(PHandler, make_obj(<< Entry(Str("handler"), make_str(Str("h"))) >>)),
         Entry(PNoHandler, make_obj(<< Entry(Str("handler"), make_str(Str("n"))) >>)),
         Entry(PEcho, make_obj(<< Entry(Str("handler"), make_str(Str("e"))) >>)),
         \* a handler name that makes "f_<name>" one byte longer than sym holds
         Entry(PLongName, make_obj(<< Entry(Str("handler"), make_str(Rep("h", SymCap - 2))) >>)),
         Entry(PJson, make_obj(<< Entry(Str("json"), make_obj(<< Entry(Str("a"), make_num_val(1)) >>)),
                                  Entry(Str("status"), make_num_val(201)) >>)),
         Entry(PRedirect, make_obj(<< Entry(Str("redirect"), make_str(PPing)) >>)),
         Entry(PNumber, make_num_val(7)),
         Entry(PLong, make_str(Str("a"))) >> }

HttpTail == CatAll(<< Str(" "), Str("HTTP/1.1"), Str(CRLF),
                      Str("Host"), Str(":"), Str(" "), Str("a"), Str(CRLF), Str(CRLF) >>)

Request(m, target) == CatAll(<< Str(m), Str(" "), target, HttpTail >>)

\* a POST whose Content-Length header has the value len, followed by the body bytes
PostWithLength(target, len, body) ==
    CatAll(<< Str("POST"), Str(" "), target, Str("?"), Str("q"), Str(" "), Str("HTTP/1.1"), Str(CRLF),
              Str("cookie"), Str(":"), Str(" "), Str("sid=1"), Str(CRLF),
              Str("Content-Length"), Str(":"), Str(" "), len, Str(CRLF),
              Str(CRLF), body >>)

PostWithBody(target) == PostWithLength(target, Str("4"), Str("pong"))

\* 2^32 + 1 in decimal
TwoTo32Plus1 ==
    CatAll(<< Str("4"), Str("2"), Str("9"), Str("4"), Str("9"), Str("6"), Str("7"), Str("2"),
              Str("9"), Str("7") >>)

\* the byte streams a client may send after connecting
Requests ==
    { Request("GET", t) :
        t \in {PPing, PMissing, PHandler, PNoHandler, PLongName, PJson, PRedirect, PNumber,
               PLonger, CatAll(<< PPing, Str("?"), Str("q") >>)} }
    \cup { Request(m, t) : m \in {"POST", "HEAD"}, t \in {PPing, PMissing} }
    \cup { \* a request line with no second space and no later space
           CatAll(<< Str("GET"), Str(" "), PPing, Str(CRLF), Str(CRLF) >>),
           \* a request line with no second space, followed by a header
           CatAll(<< Str("GET"), Str(" "), PPing, Str(CRLF),
                     Str("Host"), Str(":"), Str(" "), Str("a"), Str(CRLF), Str(CRLF) >>),
           \* no space at all
           CatAll(<< Str("GET"), PPing >>),
           \* a body framed by Content-Length, and a Cookie header
           PostWithBody(PHandler),
           PostWithBody(PMissing),
           \* a Content-Length that does not fit in int
           PostWithLength(PEcho, TwoTo32Plus1, Str("pong")),
           \* a negative Content-Length
           PostWithLength(PEcho, Cat(Str("-"), Str("4")), Str("pong")),
           \* a request larger than the request buffer
           PostWithLength(PEcho, CatAll(<< Str("2"), Str("0"), Str("0"), Str("0"), Str("0") >>),
                          Rep("x", ReqCap + 3616)),
           \* a query string longer than the target buffer of the extractors
           Request("GET", CatAll(<< PHandler, Str("?"), Rep("q", TargetCap) >>)) }

\* ------------------------------------------------------------------------
\* blaze_run: the accept loop
\* ------------------------------------------------------------------------
VARIABLES
    pc,           \* position of the loop body
    routes,       \* entries of the route table Object (routes_val->ptr)
    open_fds,     \* client sockets accepted and not yet closed
    client_fd,    \* the socket of the current connection
    net,          \* bytes the current client has sent
    req,          \* the request buffer (n = strlen(req))
    content_len,  \* Content-Length found in the first bytes received
    method,       \* blaze_find_method(req)
    path_key,     \* the path the request line was parsed to
    lookups,      \* keys blaze_route_lookup was called with for this connection
    route_idx,    \* index of the route entry used, 0 when none
    v,            \* the value the response is built from
    dispatch,     \* calls of blaze_call_snask_handler for this connection
    resp,         \* responses written on this connection
    conns,        \* connections accepted so far
    accept_errs   \* failed accept calls so far

blaze_vars == << pc, routes, open_fds, client_fd, net, req, content_len, method, path_key, lookups,
                 route_idx, v, dispatch, resp, conns, accept_errs >>

\* state of the library calls a script makes outside blaze_run
VARIABLES
    thr,          \* the SnaskThread records allocated by thread_spawn
    thr_calls,    \* dispatches made by snask_thread_entry
    thr_ops,      \* thread_spawn / thread_join / thread_detach calls and their results
    thr_fault     \* a pthread call with undefined behaviour has crashed the process

thread_vars == << thr, thr_calls, thr_ops, thr_fault >>

\* state of the allocation tracker and of the threads that call it
VARIABLES
    snask_gc_ptrs,    \* the registry: snask_gc_ptrs[0 .. snask_gc_len - 1]
    snask_gc_cap,     \* capacity of the registry
    snask_gc_inited,  \* the exit hook has been registered
    snask_gc_mu,      \* the thread that holds the registry mutex, 0 when free
    gc_hooks,         \* number of atexit(snask_gc_cleanup) registrations
    gc_live,          \* addresses the C allocator has handed out and not freed
    gc_bufs,          \* buffers returned to the script by the tracker's calls
    gc_untracked,     \* buffers returned although their registration failed
    gc_thr,           \* per thread: the call in progress and its locals
    gc_calls,         \* number of calls started
    gc_exit           \* "no", or how the process exited and what the hook freed

gc_vars == << snask_gc_ptrs, snask_gc_cap, snask_gc_inited, snask_gc_mu, gc_hooks, gc_live,
              gc_bufs, gc_untracked, gc_thr, gc_calls, gc_exit >>

\* state of a script that builds Values and passes them through the JSON engine
VARIABLES
    json_pc,      \* "value": a Value is at hand; "text": a text is at hand; "fault": crashed
    json_val,     \* the Value at hand (NoValue when the script started from a text)
    json_origin,  \* "array" while the Value was made by the array helpers or parsed from "[...]"
    json_mode,    \* how the text at hand was made: "compact", "pretty", or "input"
    json_text,    \* the text at hand
    json_silent,  \* json_parse(text), NoValue before the call
    json_ex,      \* json_parse_ex(text), NoValue before the call
    json_round,   \* number of times a parsed Value was taken as the Value at hand
    sj_op,        \* the last sjson_* call on the Value at hand
    sj_ops        \* number of sjson_arr_* calls made

json_vars == << json_pc, json_val, json_origin, json_mode, json_text, json_silent, json_ex,
                json_round, sj_op, sj_ops >>

lib_vars == << thread_vars, gc_vars, json_vars >>

\* everything outside one subsystem
not_thread_vars == << blaze_vars, gc_vars, json_vars >>
not_gc_vars == << blaze_vars, thread_vars, json_vars >>
not_json_vars == << blaze_vars, thread_vars, gc_vars >>

vars == << blaze_vars, lib_vars >>

conn_vars == << net, req, content_len, method, path_key, lookups, route_idx, v, dispatch, resp >>

\* no thread has been spawned
ThreadInit ==
    /\ thr = << >>
    /\ thr_calls = << >>
    /\ thr_ops = << >>
    /\ thr_fault = FALSE

GcThreads == 1..MaxGcThreads
GcIdle == [pc |-> "idle", op |-> "none", oldp |-> 0, p |-> 0]

\* the process has made no tracked allocation
GcInit ==
    /\ snask_gc_ptrs = << >>
    /\ snask_gc_cap = 0
    /\ snask_gc_inited = FALSE
    /\ snask_gc_mu = 0
    /\ gc_hooks = 0
    /\ gc_live = {}
    /\ gc_bufs = {}
    /\ gc_untracked = {}
    /\ gc_thr = [t \in GcThreads |-> GcIdle]
    /\ gc_calls = 0
    /\ gc_exit = [done |-> FALSE]

\* no Value, no text, no call yet
NoValue == [tag |-> "NONE", num |-> 0, ptr |-> << >>]
NoSjOp == [op |-> "none"]

\* the script makes no use of the JSON engine
JsonOff ==
    /\ json_pc = "off"
    /\ json_val = NoValue
    /\ json_origin = "none"
    /\ json_mode = "none"
    /\ json_text = << >>
    /\ json_silent = NoValue
    /\ json_ex = NoValue
    /\ json_round = 0
    /\ sj_op = NoSjOp
    /\ sj_ops = 0

Init ==
    /\ ThreadInit
    /\ GcInit
    /\ JsonOff
    /\ pc = "accept"
    /\ routes \in RouteTables
    /\ open_fds = {}
    /\ client_fd = -1
    /\ net = << >>
    /\ req = << >>
    /\ content_len = 0
    /\ method = NoMethod
    /\ path_key = << >>
    /\ lookups = << >>
    /\ route_idx = 0
    /\ v = make_nil
    /\ dispatch = << >>
    /\ resp = << >>
    /\ conns = 0
    /\ accept_errs = 0

\* the lowest descriptor not in use (descriptor 3 is server_fd)
FreshFd == CHOOSE fd \in 4..(4 + MaxConns) : fd \notin open_fds /\ \A g \in 4..(fd - 1) : g \in open_fds

\* accept() returns a client socket; the client sends r
Accept(r) ==
    /\ pc = "accept"
    /\ conns < MaxConns
    /\ client_fd' = FreshFd
    /\ open_fds' = open_fds \cup {FreshFd}
    /\ net' = r
    /\ req' = << >>
    /\ content_len' = 0
    /\ method' = NoMethod
    /\ path_key' = << >>
    /\ lookups' = << >>
    /\ route_idx' = 0
    /\ v' = make_nil
    /\ dispatch' = << >>
    /\ resp' = << >>
    /\ conns' = conns + 1
    /\ pc' = "recv"
    /\ UNCHANGED << routes, accept_errs >>
    /\ UNCHANGED lib_vars

\* accept() fails: if (client_fd < 0) continue
AcceptFail ==
    /\ pc = "accept"
    /\ accept_errs < MaxAcceptErrs
    /\ accept_errs' = accept_errs + 1
    /\ client_fd' = -1
    /\ UNCHANGED << pc, routes, open_fds, conns >>
    /\ UNCHANGED conn_vars
    /\ UNCHANGED lib_vars

\* a close that leaves the descriptor open
close_leak(fd) == open_fds

close(fd) == open_fds \ {fd}

\* the first recv returns n <= 0: close and continue
RecvFail ==
    /\ pc = "recv"
    /\ open_fds' = close(client_fd)
    /\ pc' = "accept"
    /\ UNCHANGED << routes, client_fd, conns, accept_errs >>
    /\ UNCHANGED conn_vars
    /\ UNCHANGED lib_vars

\* the first recv returns n > 0 bytes
Recv(n) ==
    /\ pc = "recv"
    /\ n > 0 /\ n <= strlen(net) /\ n <= ReqCap - 1
    /\ req' = Take(net, n)
    /\ content_len' = blaze_parse_content_length(Take(net, n))
    /\ pc' = "body"
    /\ UNCHANGED << routes, open_fds, client_fd, net, method, path_key, lookups, route_idx,
                    v, dispatch, resp, conns, accept_errs >>
    /\ UNCHANGED lib_vars

\* the condition of the loop that reads the rest of the body
MoreBodyWanted ==
    /\ HasHdrEnd(req)
    /\ content_len > HaveBody(req)
    /\ strlen(req) < ReqCap - 1

\* a further recv returns m > 0 bytes
RecvMore(m) ==
    /\ pc = "body"
    /\ MoreBodyWanted
    /\ m > 0 /\ strlen(req) + m <= strlen(net) /\ m <= (ReqCap - 1) - strlen(req)
    /\ req' = Take(net, strlen(req) + m)
    /\ UNCHANGED << pc, routes, open_fds, client_fd, net, content_len, method, path_key,
                    lookups, route_idx, v, dispatch, resp, conns, accept_errs >>
    /\ UNCHANGED lib_vars

\* a further recv returns m <= 0: break
RecvMoreFail ==
    /\ pc = "body"
    /\ MoreBodyWanted
    /\ pc' = "parse"
    /\ UNCHANGED << routes, open_fds, client_fd, net, req, content_len, content_len, method, path_key,
                    lookups, route_idx, v, dispatch, resp, conns, accept_errs >>
    /\ UNCHANGED lib_vars

\* the loop condition is false
BodyDone ==
    /\ pc = "body"
    /\ ~MoreBodyWanted
    /\ pc' = "parse"
    /\ UNCHANGED << routes, open_fds, client_fd, net, req, content_len, content_len, method, path_key,
                    lookups, route_idx, v, dispatch, resp, conns, accept_errs >>
    /\ UNCHANGED lib_vars

\* blaze_parse_path fails: 400, close, continue
BadRequest ==
    /\ pc = "parse"
    /\ ~blaze_parse_path(req, PathKeyCap).ok
    /\ method' = blaze_find_method(req)
    /\ resp' = Append(resp, blaze_send_response("400", 400, TextPlain, Str("Bad Request")))
    /\ open_fds' = close(client_fd)
    /\ pc' = "accept"
    /\ UNCHANGED << routes, client_fd, net, req, content_len, path_key, lookups, route_idx, v, dispatch,
                    conns, accept_errs >>
    /\ UNCHANGED lib_vars

ParseOk ==
    /\ pc = "parse"
    /\ blaze_parse_path(req, PathKeyCap).ok
    /\ method' = blaze_find_method(req)
    /\ path_key' = blaze_parse_path(req, PathKeyCap).path
    /\ pc' = "route"
    /\ UNCHANGED << routes, open_fds, client_fd, net, req, content_len, lookups, route_idx, v, dispatch,
                    resp, conns, accept_errs >>
    /\ UNCHANGED lib_vars

\* the one or two route lookups of a request
RouteKey == snprintf(KeyCap, CatAll(<< Str(method), Str(" "), path_key >>))
RouteFirst == IF method # NoMethod THEN blaze_route_lookup(routes, RouteKey)
              ELSE [found |-> FALSE, value |-> make_nil, idx |-> 0]
RouteSecond == blaze_route_lookup(routes, path_key)
RouteResult == IF RouteFirst.found THEN RouteFirst ELSE RouteSecond
RouteLookups == (IF method # NoMethod THEN << RouteKey >> ELSE << >>)
                \o (IF RouteFirst.found THEN << >> ELSE << path_key >>)

\* no route: 404, close, continue
NotFound ==
    /\ pc = "route"
    /\ ~RouteResult.found
    /\ lookups' = RouteLookups
    /\ resp' = Append(resp, blaze_send_response("404", 404, TextPlain, Str("Not Found")))
    /\ open_fds' = close(client_fd)
    /\ pc' = "accept"
    /\ UNCHANGED << routes, client_fd, net, req, content_len, method, path_key, route_idx, v, dispatch,
                    conns, accept_errs >>
    /\ UNCHANGED lib_vars

\* a lookup that moves the entry found to the front of the table
RouteFoundToFront ==
    /\ pc = "route"
    /\ RouteResult.found
    /\ lookups' = RouteLookups
    /\ route_idx' = RouteResult.idx
    /\ v' = RouteResult.value
    /\ pc' = "handler"
    /\ routes' = << routes[RouteResult.idx] >>
                    \o SubSeq(routes, 1, RouteResult.idx - 1)
                    \o SubSeq(routes, RouteResult.idx + 1, Len(routes))
    /\ UNCHANGED << open_fds, client_fd, net, req, content_len, method, path_key, dispatch, resp,
                    conns, accept_errs >>
    /\ UNCHANGED lib_vars

RouteFound ==
    /\ pc = "route"
    /\ RouteResult.found
    /\ lookups' = RouteLookups
    /\ route_idx' = RouteResult.idx
    /\ v' = RouteResult.value
    /\ pc' = "handler"
    /\ UNCHANGED << routes, open_fds, client_fd, net, req, content_len, method, path_key, dispatch, resp,
                    conns, accept_errs >>
    /\ UNCHANGED lib_vars

\* the "handler" indirection of the matched route value
HandlerField == IF v.tag = "OBJ" THEN blaze_obj_lookup(v.ptr, Str("handler"))
                ELSE [found |-> FALSE, value |-> make_nil]
IsHandlerRoute == HandlerField.found /\ HandlerField.value.tag = "STR"

SymbolOf(handler_name) == snprintf(SymCap, Cat(Cat(Str("f"), Str("_")), handler_name))
\* dlsym(NULL, sym) != NULL
dlsym(sym) == sym \in Symbols

\* the arguments blaze_run passes to blaze_call_snask_handler, whether the
\* symbol resolved, and the value the call returned
HandlerCall(resolved, rv) ==
    [name |-> HandlerField.value.ptr,
     method |-> IF method # NoMethod THEN Str(method) ELSE Str("GET"),
     path |-> blaze_extract_path_only(req),
     query |-> blaze_extract_query(req),
     body |-> RequestBody(req, content_len),
     cookie |-> blaze_extract_cookie_header(req),
     resolved |-> resolved,
     ret |-> rv]

\* the symbol resolves: the script function runs and its result replaces v
DispatchResolved(rv) ==
    /\ pc = "handler"
    /\ IsHandlerRoute
    /\ dlsym(SymbolOf(HandlerField.value.ptr))
    /\ HandlerField.value.ptr = Str("e") => rv \in EchoReturns
    /\ dispatch' = Append(dispatch, HandlerCall(TRUE, rv))
    /\ v' = rv
    /\ pc' = "respond"
    /\ UNCHANGED << routes, open_fds, client_fd, net, req, content_len, method, path_key, lookups,
                    route_idx, resp, conns, accept_errs >>
    /\ UNCHANGED lib_vars

\* the symbol does not resolve: blaze_call_snask_handler returns make_nil()
DispatchUnresolved ==
    /\ pc = "handler"
    /\ IsHandlerRoute
    /\ ~dlsym(SymbolOf(HandlerField.value.ptr))
    /\ dispatch' = Append(dispatch, HandlerCall(FALSE, make_nil))
    /\ v' = make_nil
    /\ pc' = "respond"
    /\ UNCHANGED << routes, open_fds, client_fd, net, req, content_len, method, path_key, lookups,
                    route_idx, resp, conns, accept_errs >>
    /\ UNCHANGED lib_vars

\* the route value is not a handler indirection
NoHandler ==
    /\ pc = "handler"
    /\ ~IsHandlerRoute
    /\ pc' = "respond"
    /\ UNCHANGED << routes, open_fds, client_fd, net, req, content_len, method, path_key, lookups,
                    route_idx, v, dispatch, resp, conns, accept_errs >>
    /\ UNCHANGED lib_vars

\* the order of the branches with the body tested before the redirect
ResponseBranchBodyFirst(val) ==
    LET body_v == blaze_obj_lookup(val.ptr, Str("body"))
        json_v == blaze_obj_lookup(val.ptr, Str("json"))
        redir_v == blaze_obj_lookup(val.ptr, Str("redirect"))
    IN  IF body_v.found /\ body_v.value.tag = "STR" THEN "body"
        ELSE IF redir_v.found /\ redir_v.value.tag = "STR" THEN "redirect"
        ELSE IF json_v.found THEN "json"
        ELSE "fallback"

\* the if / else-if chain over the fields of a response Object
ResponseBranch(val) ==
    LET body_v == blaze_obj_lookup(val.ptr, Str("body"))
        json_v == blaze_obj_lookup(val.ptr, Str("json"))
        redir_v == blaze_obj_lookup(val.ptr, Str("redirect"))
    IN  IF redir_v.found /\ redir_v.value.tag = "STR" THEN "redirect"
        ELSE IF body_v.found /\ body_v.value.tag = "STR" THEN "body"
        ELSE IF json_v.found THEN "json"
        ELSE "fallback"

\* the response blaze_run builds from an Object value
ObjectResponse(val) ==
    LET o == val.ptr
        body_v == blaze_obj_lookup(o, Str("body"))
        json_v == blaze_obj_lookup(o, Str("json"))
        status_v == blaze_obj_lookup(o, Str("status"))
        ct_v == blaze_obj_lookup(o, Str("content_type"))
        redir_v == blaze_obj_lookup(o, Str("redirect"))
        header_v == blaze_obj_lookup(o, Str("header"))
        cookie_v == blaze_obj_lookup(o, Str("cookie"))
        status == IF status_v.found /\ status_v.value.tag = "NUM" THEN status_v.value.num ELSE 200
        has_ct == ct_v.found /\ ct_v.value.tag = "STR"
        ct == ct_v.value.ptr
        has_hl == header_v.found /\ header_v.value.tag = "STR"
        header_line == header_v.value.ptr
        has_cl == cookie_v.found /\ cookie_v.value.tag = "STR"
        cookie_line == cookie_v.value.ptr
    IN  IF ResponseBranch(val) = "redirect"
        THEN LET extra == snprintf(LocationCap,
                              CatAll(<< Str("Location: "), redir_v.value.ptr, Str(CRLF) >>))
                 extra2 == strncat(<< >>, extra, ExtraCap - 1)
             IN  blaze_send_response_extra("redirect",
                     IF status = 0 THEN 302 ELSE status,
                     IF has_ct THEN ct ELSE TextPlain,
                     AppendHeaderCookie(extra2, has_hl, header_line, has_cl, cookie_line),
                     << >>)
        ELSE IF ResponseBranch(val) = "body"
        THEN blaze_send_response_headers("body", status, IF has_ct THEN ct ELSE TextPlain,
                 has_hl, header_line, has_cl, cookie_line, body_v.value.ptr)
        ELSE IF ResponseBranch(val) = "json"
        THEN blaze_send_response_headers("json", status, IF has_ct THEN ct ELSE AppJson,
                 has_hl, header_line, has_cl, cookie_line, json_stringify(json_v.value))
        ELSE blaze_send_response_headers("fallback", status, IF has_ct THEN ct ELSE AppJson,
                 has_hl, header_line, has_cl, cookie_line, json_stringify(val))

\* v is an Object: one of the four response-object branches, then close
RespondObject ==
    /\ pc = "respond"
    /\ v.tag = "OBJ"
    /\ resp' = Append(resp, ObjectResponse(v))
    /\ open_fds' = close(client_fd)
    /\ pc' = "accept"
    /\ UNCHANGED << routes, client_fd, net, req, content_len, method, path_key, lookups, route_idx, v,
                    dispatch, conns, accept_errs >>
    /\ UNCHANGED lib_vars

\* v is a String: sent verbatim, then close
RespondString ==
    /\ pc = "respond"
    /\ v.tag = "STR"
    /\ resp' = Append(resp, blaze_send_response("string", 200, TextPlain, v.ptr))
    /\ open_fds' = close(client_fd)
    /\ pc' = "accept"
    /\ UNCHANGED << routes, client_fd, net, req, content_len, method, path_key, lookups, route_idx, v,
                    dispatch, conns, accept_errs >>
    /\ UNCHANGED lib_vars

\* any other value: its JSON text, then close
RespondOther ==
    /\ pc = "respond"
    /\ v.tag \notin {"OBJ", "STR"}
    /\ resp' = Append(resp, blaze_send_response("other", 200, AppJson, json_stringify(v)))
    /\ open_fds' = close(client_fd)
    /\ pc' = "accept"
    /\ UNCHANGED << routes, client_fd, net, req, content_len, method, path_key, lookups, route_idx, v,
                    dispatch, conns, accept_errs >>
    /\ UNCHANGED lib_vars

\* the loop is about to write a response: the 400, the 404, or the one built from v
AboutToSend ==
    \/ pc = "parse" /\ ~blaze_parse_path(req, PathKeyCap).ok
    \/ pc = "route" /\ ~RouteResult.found
    \/ pc = "respond"

\* the client has closed its end of the connection: a send of blaze_send_all raises SIGPIPE.
\* send is called with flags 0 and the runtime neither ignores nor handles the signal, so the
\* process is terminated inside the call, before close(client_fd); its buffers are gone
SendSigpipe ==
    /\ AboutToSend
    /\ pc' = "killed"
    /\ net' = << >>
    /\ req' = << >>
    /\ content_len' = 0
    /\ method' = NoMethod
    /\ path_key' = << >>
    /\ lookups' = << >>
    /\ route_idx' = 0
    /\ v' = make_nil
    /\ dispatch' = << >>
    /\ resp' = << >>
    /\ UNCHANGED << routes, open_fds, client_fd, conns, accept_errs >>
    /\ UNCHANGED lib_vars

\* the steps of the loop body after accept
Serve ==
    \/ RecvFail
    \/ \E n \in {2, strlen(net) - HaveBody(net), strlen(net), ReqCap - 1} : Recv(n)
    \/ \E m \in {(strlen(net) - strlen(req) + 2) \div 2, strlen(net) - strlen(req),
                  ReqCap - 1 - strlen(req)} : RecvMore(m)
    \/ RecvMoreFail
    \/ BodyDone
    \/ BadRequest
    \/ ParseOk
    \/ NotFound
    \/ RouteFound
    \/ \E rv \in HandlerReturns : DispatchResolved(rv)
    \/ DispatchUnresolved
    \/ NoHandler
    \/ RespondObject
    \/ RespondString
    \/ RespondOther

Next ==
    \/ \E r \in Requests : Accept(r)
    \/ AcceptFail
    \/ Serve
    \/ SendSigpipe

Spec == Init /\ [][Next]_vars

TypeOK ==
    /\ pc \in {"accept", "recv", "body", "parse", "route", "handler", "respond", "killed"}
    /\ Len(resp) <= 1
    /\ conns \in 0..MaxConns
    /\ accept_errs \in 0..MaxAcceptErrs

\* ------------------------------------------------------------------------
\* Vocabulary of the properties
\* ------------------------------------------------------------------------
\* sub occurs in s as a run of whole pieces
Contains(s, sub) ==
    \E i \in 1..(Len(s) - Len(sub) + 1) : SubSeq(s, i, i + Len(sub) - 1) = sub

\* the request line of the bytes received: everything before the first CRLF
RequestLine == BeforeChr(req, CRLF)

\* the request line starts with a recognised method token and a space, and
\* its target is terminated by a second space
WellFormedLine ==
    /\ blaze_find_method(RequestLine) # NoMethod
    /\ HasChr(AfterChr(RequestLine, " "), " ")

\* the method and the path (query string removed) of a well-formed request
RequestMethod == blaze_find_method(RequestLine)
RequestPath == BeforeChr(BeforeChr(AfterChr(RequestLine, " "), " "), "?")

\* the route entries keyed exactly key
Keyed(key) == { i \in 1..Len(routes) : routes[i].name = key }
Lowest(S) == CHOOSE i \in S : \A j \in S : i <= j

\* the entry the routing rule selects: "M P" first, bare "P" second, 0 = none
SelectedRoute ==
    IF Keyed(MethodKey(RequestMethod, RequestPath)) # {}
    THEN Lowest(Keyed(MethodKey(RequestMethod, RequestPath)))
    ELSE IF Keyed(RequestPath) # {} THEN Lowest(Keyed(RequestPath))
    ELSE 0

\* routing has been done for the current connection
Routed == lookups # << >>
\* the current connection has been answered
Answered == Len(resp) = 1

\* the header block a client must receive for (status, content type, body)
HeaderHas(r, status, ct, body) ==
    /\ StartsWith(r.header, CatAll(<< Str("HTTP/1.1 "), FmtD(status), Str(" ") >>))
    /\ Contains(r.header, CatAll(<< Str("Content-Type: "), ct, Str(CRLF) >>))
    /\ Contains(r.header, CatAll(<< Str("Content-Length: "), FmtD(strlen(body)), Str(CRLF) >>))
    /\ EndsWith(r.header, CatAll(<< Str("Connection: close\r\n"), Str(CRLF) >>))

\* ------------------------------------------------------------------------
\* Properties
\* ------------------------------------------------------------------------

\* C1: every accepted connection is closed before accept is called again;
\* at most one client connection is open at any time, and while a
\* connection is being handled it is the only open one.
C1_OneConnectionAtATime ==
    /\ Cardinality(open_fds) <= 1
    /\ pc = "accept" => open_fds = {}
    /\ pc # "accept" => open_fds = {client_fd}

\* a second connection is being handled after the first one was closed
C1_Witness == conns >= 2 /\ pc = "respond" /\ open_fds = {client_fd}

\* C2: for a request with method M and path P the route used is the entry
\* keyed "M P" if there is one, otherwise the entry keyed "P", matched by
\* exact string equality only.
C2_ExactRoute ==
    (Routed /\ WellFormedLine) => route_idx = SelectedRoute

\* C3: a matched plain String route is answered 200 text/plain with the
\* string as body; a request whose path has neither a method-qualified nor
\* a bare entry is answered 404.
C3_StringOr404 ==
    (Answered /\ WellFormedLine) =>
        /\ (SelectedRoute # 0 /\ routes[SelectedRoute].value.tag = "STR") =>
              /\ resp[1].body = routes[SelectedRoute].value.ptr
              /\ HeaderHas(resp[1], 200, TextPlain, routes[SelectedRoute].value.ptr)
        /\ SelectedRoute = 0 => resp[1].status = 404

\* C4: a request whose request line cannot be parsed is answered 400, with
\* no route lookup and no handler dispatch.
C4_BadRequestLine ==
    (req # << >> /\ ~WellFormedLine) =>
        /\ lookups = << >>
        /\ dispatch = << >>
        /\ Answered => resp[1].status = 400

\* the response to a request whose path has no route at all
NoRouteResponse == blaze_send_response("404", 404, TextPlain, Str("Not Found"))

\* C5: when the handler symbol of a matched route cannot be resolved the
\* client receives the same status and body as for a path with no route.
C5_UnresolvedLooksLikeNoRoute ==
    (Answered /\ Len(dispatch) = 1 /\ ~dispatch[1].resolved) =>
        /\ resp[1].status = NoRouteResponse.status
        /\ resp[1].body = NoRouteResponse.body

\* the fields of the value the response was built from
FieldOf(name) == blaze_obj_lookup(v.ptr, Str(name))
HasStr(name) == v.tag = "OBJ" /\ FieldOf(name).found /\ FieldOf(name).value.tag = "STR"
HasNum(name) == v.tag = "OBJ" /\ FieldOf(name).found /\ FieldOf(name).value.tag = "NUM"
HasField(name) == v.tag = "OBJ" /\ FieldOf(name).found
\* the response was built from v (not a 400 or 404)
Built == Answered /\ resp[1].site \notin {"400", "404"}

\* C6: a response Object with a string redirect and no status field is
\* answered 302 with a Location header carrying the redirect value and an
\* empty body; an explicit numeric status is used instead of 302.
C6_RedirectDefault302 ==
    (Built /\ HasStr("redirect")) =>
        /\ ~HasField("status") => resp[1].status = 302
        /\ HasNum("status") => resp[1].status = FieldOf("status").value.num
        /\ resp[1].body = << >>
        /\ StartsWith(resp[1].header,
              CatAll(<< Str("HTTP/1.1 "), FmtD(resp[1].status), Str(" ") >>))
        /\ Contains(resp[1].header,
              CatAll(<< Str("Location: "), FieldOf("redirect").value.ptr, Str(CRLF) >>))

\* the branch the priority order selects for a value, and the body it sends
PriorityBranch ==
    IF v.tag = "OBJ"
    THEN IF HasStr("redirect") THEN "redirect"
         ELSE IF HasStr("body") THEN "body"
         ELSE IF HasField("json") THEN "json"
         ELSE "fallback"
    ELSE IF v.tag = "STR" THEN "string"
    ELSE "other"

PriorityBody ==
    CASE PriorityBranch = "redirect" -> << >>
      [] PriorityBranch = "body" -> FieldOf("body").value.ptr
      [] PriorityBranch = "json" -> json_stringify(FieldOf("json").value)
      [] PriorityBranch = "fallback" -> json_stringify(v)
      [] PriorityBranch = "string" -> v.ptr
      [] PriorityBranch = "other" -> json_stringify(v)

\* C7: response building applies exactly one branch, chosen in the order
\* redirect, body, json, fallback for an Object; a String is sent 200
\* text/plain verbatim and any other value 200 application/json as its JSON
\* text.
C7_BranchPriority ==
    Built =>
        /\ resp[1].site = PriorityBranch
        /\ resp[1].body = PriorityBody
        /\ PriorityBranch = "redirect" =>
              StartsWith(resp[1].extra, Str("Location: "))
        /\ PriorityBranch = "string" => HeaderHas(resp[1], 200, TextPlain, v.ptr)
        /\ PriorityBranch = "other" => HeaderHas(resp[1], 200, AppJson, json_stringify(v))

\* an Object with string redirect, string body and json was answered
C7_Witness ==
    /\ Built
    /\ HasStr("redirect") /\ HasStr("body") /\ HasField("json")
    /\ resp[1].site = "redirect"
    /\ resp[1].body = << >>

\* C8: a response Object taken through the json branch is answered with its
\* numeric status (default 200), its string content_type (default
\* application/json) and the compact JSON text of the json field as body.
C8_JsonBranch ==
    (Built /\ PriorityBranch = "json") =>
        LET status == IF HasNum("status") THEN FieldOf("status").value.num ELSE 200
            ct == IF HasStr("content_type") THEN FieldOf("content_type").value.ptr ELSE AppJson
            body == json_stringify(FieldOf("json").value)
        IN  /\ resp[1].status = status
            /\ resp[1].body = body
            /\ StartsWith(resp[1].header,
                  CatAll(<< Str("HTTP/1.1 "), FmtD(status), Str(" ") >>))
            /\ Contains(resp[1].header,
                  CatAll(<< Str("Content-Type: "), ct, Str(CRLF) >>))

\* C9: every response written consists of a status line, Content-Type,
\* Content-Length equal to the body's byte length, Connection: close, a
\* blank line and then the body.
C9_ResponseFraming ==
    \A i \in 1..Len(resp) :
        HeaderHas(resp[i], resp[i].status, resp[i].content_type, resp[i].body)

\* C10: in every Object response branch a non-empty string header field is
\* emitted as one extra header line and a non-empty string cookie field as
\* one Set-Cookie line of the header block.
C10_HeaderAndCookieLines ==
    (Built /\ v.tag = "OBJ") =>
        /\ (HasStr("header") /\ FieldOf("header").value.ptr # << >>) =>
              Contains(resp[1].header,
                  CatAll(<< Str(CRLF), FieldOf("header").value.ptr, Str(CRLF) >>))
        /\ (HasStr("cookie") /\ FieldOf("cookie").value.ptr # << >>) =>
              Contains(resp[1].header,
                  CatAll(<< Str(CRLF), Str("Set-Cookie: "), FieldOf("cookie").value.ptr, Str(CRLF) >>))

\* the raw query string of the request line received: the bytes of the
\* target after its first '?', "" when it has none
RequestQuery ==
    LET target == BeforeChr(AfterChr(RequestLine, " "), " ")
    IN  IF HasChr(target, "?") THEN AfterChr(target, "?") ELSE << >>

\* the matched route value is an Object with a string handler field
RouteHasHandler ==
    /\ route_idx # 0
    /\ routes[route_idx].value.tag = "OBJ"
    /\ blaze_obj_lookup(routes[route_idx].value.ptr, Str("handler")).found
    /\ blaze_obj_lookup(routes[route_idx].value.ptr, Str("handler")).value.tag = "STR"

\* the handler step of the current connection is over
Dispatched == pc = "respond" \/ Built

\* C11: a matched route Object with a string handler field makes exactly one
\* handler call per request, with the request's method, its path without
\* the query string, its raw query string, its body and its Cookie header
\* value; the response is built from the value returned, which is not
\* dispatched again; a route value without such a field makes no call.
C11_HandlerDispatch ==
    /\ Len(dispatch) <= 1
    /\ (Dispatched /\ RouteHasHandler) => Len(dispatch) = 1
    /\ (Dispatched /\ ~RouteHasHandler) => dispatch = << >>
    /\ (Dispatched /\ Len(dispatch) = 1) =>
          /\ dispatch[1].name =
                blaze_obj_lookup(routes[route_idx].value.ptr, Str("handler")).value.ptr
          /\ dispatch[1].method = Str(RequestMethod)
          /\ dispatch[1].path = RequestPath
          /\ dispatch[1].query = RequestQuery
          /\ dispatch[1].body = RequestBody(req, content_len)
          /\ dispatch[1].cookie = blaze_extract_cookie_header(req)
          /\ v = dispatch[1].ret
          /\ Built => resp[1].body = PriorityBody

\* ------------------------------------------------------------------------
\* Threads: thread_spawn, snask_thread_entry, thread_join, thread_detach
\* ------------------------------------------------------------------------
\* the function names and arguments a script passes to thread_spawn; the
\* long name makes "f_<name>" one byte longer than the sym buffer holds
ThreadNames == { make_str(Str("h")), make_str(Str("n")), make_str(Rep("h", SymCap - 2)),
                 make_num_val(1) }
ThreadArgs == { make_str(Str("pong")), make_nil }

\* snprintf(buf, 64, "%p", p) and sscanf(h, "%p", &p); NULL is 0
thread_ptr_to_handle(p) == snprintf(64, Cat(Str("0x"), FmtD(p)))
thread_handle_to_ptr(h) == IF StartsWith(h, Str("0x")) THEN atoi(Tail(h)) ELSE 0

\* the SnaskThread at address p after thread_spawn has filled it in; run is
\* the position of the thread started on it, os the state pthread keeps
SnaskThread(fn_name, arg, started, run, os) ==
    [fn_name |-> fn_name, arg |-> arg, started |-> started, joined |-> 0, run |-> run, os |-> os]

\* one call of the thread API: its arguments and result, the pthread call it
\* issued, and the state of the target thread when the call was made
ThreadOp(op, a1, a2, ret, issued, target) ==
    [op |-> op, a1 |-> a1, a2 |-> a2, ret |-> ret, issued |-> issued, target |-> target,
     os |-> IF target \in 1..Len(thr) THEN thr[target].os ELSE "none",
     run |-> IF target \in 1..Len(thr) THEN thr[target].run ELSE "none"]

ThreadBudget == ~thr_fault /\ Len(thr_ops) < MaxThreadOps

\* thread_spawn(fn_name, arg_str) when pthread_create succeeds (created =
\* TRUE) or fails
thread_spawn(fn_name, arg_str, created) ==
    /\ ThreadBudget
    /\ Len(thr) < MaxSpawns
    /\ IF fn_name.tag # "STR" \/ arg_str.tag # "STR"
       THEN /\ created
            /\ thr_ops' = Append(thr_ops, ThreadOp("spawn", fn_name, arg_str, make_nil, "none", 0))
            /\ UNCHANGED thr
       ELSE LET p == Len(thr) + 1
            IN  IF created
                THEN /\ thr' = Append(thr, SnaskThread(fn_name.ptr, arg_str.ptr, 1, "created", "joinable"))
                     /\ thr_ops' = Append(thr_ops, ThreadOp("spawn", fn_name, arg_str,
                                         make_str(thread_ptr_to_handle(p)), "pthread_create", p))
                ELSE /\ thr' = Append(thr, SnaskThread(fn_name.ptr, arg_str.ptr, 0, "none", "none"))
                     /\ thr_ops' = Append(thr_ops, ThreadOp("spawn", fn_name, arg_str,
                                         make_nil, "pthread_create", p))
    /\ UNCHANGED << thr_calls, thr_fault, not_thread_vars >>

\* snask_thread_entry on the SnaskThread at p: one lookup of the symbol and,
\* when it resolves, one call f(&ra, &a)
snask_thread_entry(p) ==
    /\ ~thr_fault
    /\ p \in 1..Len(thr)
    /\ thr[p].run = "created"
    /\ LET sym == SymbolOf(thr[p].fn_name)
       IN  /\ thr_calls' = Append(thr_calls,
                  [thread |-> p, sym |-> sym, resolved |-> dlsym(sym), arg |-> make_str(thr[p].arg)])
           /\ thr' = [thr EXCEPT ![p].run = IF dlsym(sym) THEN "in_call" ELSE "terminated"]
    /\ UNCHANGED << thr_ops, thr_fault, not_thread_vars >>

\* the script function called by snask_thread_entry returns
ThreadReturn(p) ==
    /\ ~thr_fault
    /\ p \in 1..Len(thr)
    /\ thr[p].run = "in_call"
    /\ thr' = [thr EXCEPT ![p].run = "terminated"]
    /\ UNCHANGED << thr_calls, thr_ops, thr_fault, not_thread_vars >>

\* the handles a script holds: those thread_spawn returned, and two values
\* that are no handle
Handles ==
    { thr_ops[k].ret : k \in { j \in 1..Len(thr_ops) : thr_ops[j].op = "spawn" /\ thr_ops[j].ret.tag = "STR" } }
    \cup { make_nil, make_str(<< >>) }

\* the SnaskThread a handle value points to, 0 when the API call returns
\* before it looks at one
HandleTarget(handle) == IF handle.tag # "STR" THEN 0 ELSE thread_handle_to_ptr(handle.ptr)

\* what a pthread_join or pthread_detach on a thread that is not joinable
\* any more (undefined behaviour) can do: fail, crash, or, once the thread
\* has terminated and its descriptor has been released, report success
UndefinedOutcomes(t) == IF t.run = "terminated" THEN {"ok", "error", "crash"} ELSE {"error", "crash"}

\* thread_join(handle); pthread_join on a joinable thread returns 0 once
\* the thread has terminated
thread_join(handle, outcome) ==
    /\ ThreadBudget
    /\ LET p == HandleTarget(handle)
       IN  IF p = 0 \/ thr[p].started = 0 \/ thr[p].joined = 1
           THEN /\ outcome = "ok"
                /\ thr_ops' = Append(thr_ops, ThreadOp("join", handle, make_nil, make_bool(FALSE), "none", p))
                /\ UNCHANGED << thr, thr_fault >>
           ELSE /\ IF thr[p].os = "joinable"
                   THEN outcome = "ok" /\ thr[p].run = "terminated"
                   ELSE outcome \in UndefinedOutcomes(thr[p])
                /\ thr_fault' = (outcome = "crash")
                /\ thr' = IF outcome = "ok"
                          THEN [thr EXCEPT ![p].joined = 1, ![p].os = "joined"]
                          ELSE thr
                /\ thr_ops' = Append(thr_ops, ThreadOp("join", handle, make_nil,
                                    make_bool(outcome = "ok"), "pthread_join", p))
    /\ UNCHANGED << thr_calls, not_thread_vars >>

\* thread_detach(handle); pthread_detach on a joinable thread returns 0
thread_detach(handle, outcome) ==
    /\ ThreadBudget
    /\ LET p == HandleTarget(handle)
       IN  IF p = 0 \/ thr[p].started = 0
           THEN /\ outcome = "ok"
                /\ thr_ops' = Append(thr_ops, ThreadOp("detach", handle, make_nil, make_bool(FALSE), "none", p))
                /\ UNCHANGED << thr, thr_fault >>
           ELSE /\ IF thr[p].os = "joinable"
                   THEN outcome = "ok"
                   ELSE outcome \in UndefinedOutcomes(thr[p])
                /\ thr_fault' = (outcome = "crash")
                /\ thr' = IF outcome = "ok" /\ thr[p].os = "joinable"
                          THEN [thr EXCEPT ![p].os = "detached"]
                          ELSE thr
                /\ thr_ops' = Append(thr_ops, ThreadOp("detach", handle, make_nil,
                                    make_bool(outcome = "ok"), "pthread_detach", p))
    /\ UNCHANGED << thr_calls, not_thread_vars >>

ThreadNext ==
    \/ \E fn_name \in ThreadNames, arg_str \in ThreadArgs, created \in BOOLEAN :
          thread_spawn(fn_name, arg_str, created)
    \/ \E p \in 1..MaxSpawns : snask_thread_entry(p)
    \/ \E p \in 1..MaxSpawns : ThreadReturn(p)
    \/ \E handle \in Handles, outcome \in {"ok", "error", "crash"} : thread_join(handle, outcome)
    \/ \E handle \in Handles, outcome \in {"ok", "error", "crash"} : thread_detach(handle, outcome)

\* a script that only uses the thread API; blaze_run is not called
BlazeOff ==
    /\ pc = "off"
    /\ routes = << >>
    /\ open_fds = {}
    /\ client_fd = -1
    /\ net = << >>
    /\ req = << >>
    /\ content_len = 0
    /\ method = NoMethod
    /\ path_key = << >>
    /\ lookups = << >>
    /\ route_idx = 0
    /\ v = make_nil
    /\ dispatch = << >>
    /\ resp = << >>
    /\ conns = 0
    /\ accept_errs = 0

ThreadSpecInit == BlazeOff /\ ThreadInit /\ GcInit /\ JsonOff

SpecThread == ThreadSpecInit /\ [][ThreadNext]_vars

\* the symbol the dispatch protocol names for a handler: "f_" and the
\* whole name
FullSymbol(handler_name) == Cat(Cat(Str("f"), Str("_")), handler_name)

\* C12: a dispatch to a name for which no f_<name> symbol exists returns
\* Nil and calls no function, and nothing aborts: the server answers the
\* request and returns to accept, and a spawned thread terminates without a
\* call and its join succeeds.
C12_UnresolvedDispatch ==
    /\ \A k \in 1..Len(dispatch) :
          FullSymbol(dispatch[k].name) \notin Symbols =>
              /\ ~dispatch[k].resolved
              /\ dispatch[k].ret = make_nil
              /\ pc \in {"respond", "accept"}
              /\ pc = "accept" => (Len(resp) = 1 /\ open_fds = {})
    /\ \A k \in 1..Len(thr_calls) :
          FullSymbol(thr[thr_calls[k].thread].fn_name) \notin Symbols =>
              /\ ~thr_calls[k].resolved
              /\ thr[thr_calls[k].thread].run = "terminated"
    /\ \A k \in 1..Len(thr_ops) :
          (/\ thr_ops[k].op = "join"
           /\ thr_ops[k].issued = "pthread_join"
           /\ thr_ops[k].os = "joinable"
           /\ FullSymbol(thr[thr_ops[k].target].fn_name) \notin Symbols) =>
              thr_ops[k].ret = make_bool(TRUE)

\* ------------------------------------------------------------------------
\* Allocation tracker: snask_gc_malloc, snask_gc_strdup, snask_gc_realloc,
\* snask_gc_track_ptr, snask_gc_cleanup
\* ------------------------------------------------------------------------
\* addresses the C allocator hands out to the calls followed here (0 is
\* NULL); a freed address can be handed out again
GcAddrs == 1..3
\* addresses of the buffers tracked before the calls followed here
GcBaseAddr(i) == 1000 + i

\* a registry that is full at its first capacity
GcFull ==
    /\ snask_gc_ptrs = [i \in 1..GcFirstCap |-> GcBaseAddr(i)]
    /\ snask_gc_cap = GcFirstCap
    /\ snask_gc_inited = TRUE
    /\ snask_gc_mu = 0
    /\ gc_hooks = 1
    /\ gc_live = { GcBaseAddr(i) : i \in 1..GcFirstCap }
    /\ gc_bufs = { GcBaseAddr(i) : i \in 1..GcFirstCap }
    /\ gc_untracked = {}
    /\ gc_thr = [t \in GcThreads |-> GcIdle]
    /\ gc_calls = 0
    /\ gc_exit = [done |-> FALSE]

\* the buffers another call is reallocating right now
GcBusy(t) == { gc_thr[u].oldp : u \in GcThreads \ {t} }

\* a thread enters snask_gc_malloc, snask_gc_strdup or snask_gc_realloc(oldp, n)
\* and reads snask_gc_inited in snask_gc_init_if_needed
GcCall(t, op, oldp) ==
    /\ ~gc_exit.done
    /\ gc_calls < MaxGcCalls
    /\ gc_thr[t].pc = "idle"
    /\ IF op = "snask_gc_realloc"
       THEN oldp = 0 \/ (oldp \in gc_bufs /\ oldp \notin GcBusy(t))
       ELSE oldp = 0
    /\ gc_thr' = [gc_thr EXCEPT ![t] = [pc |-> IF snask_gc_inited THEN "alloc" ELSE "init",
                                         op |-> op, oldp |-> oldp, p |-> 0]]
    /\ gc_calls' = gc_calls + 1
    /\ UNCHANGED << snask_gc_ptrs, snask_gc_cap, snask_gc_inited, snask_gc_mu, gc_hooks, gc_live,
                    gc_bufs, gc_untracked, gc_exit, not_gc_vars >>

\* snask_gc_init_if_needed after reading snask_gc_inited = false
snask_gc_init_if_needed(t) ==
    /\ ~gc_exit.done
    /\ gc_thr[t].pc = "init"
    /\ snask_gc_inited' = TRUE
    /\ gc_hooks' = gc_hooks + 1
    /\ gc_thr' = [gc_thr EXCEPT ![t].pc = "alloc"]
    /\ UNCHANGED << snask_gc_ptrs, snask_gc_cap, snask_gc_mu, gc_live, gc_bufs, gc_untracked,
                    gc_calls, gc_exit, not_gc_vars >>

\* the call of malloc, strdup or realloc returns a (0 when it fails); a
\* failed call and a NULL handed to snask_gc_track_ptr return at once
GcAlloc(t, a) ==
    /\ ~gc_exit.done
    /\ gc_thr[t].pc = "alloc"
    /\ a = 0 \/ a \in GcAddrs \ gc_live \/ (a = gc_thr[t].oldp /\ gc_thr[t].op = "snask_gc_realloc")
    /\ gc_live' = IF a = 0 THEN gc_live ELSE (gc_live \ {gc_thr[t].oldp}) \cup {a}
    /\ gc_thr' = IF a = 0 THEN [gc_thr EXCEPT ![t] = GcIdle]
                 ELSE [gc_thr EXCEPT ![t].p = a,
                                     ![t].pc = IF gc_thr[t].op = "snask_gc_realloc"
                                               THEN "replace_lock" ELSE "track_lock"]
    \* the buffer at oldp is gone once realloc has returned another one
    /\ gc_bufs' = IF a = 0 THEN gc_bufs ELSE gc_bufs \ {gc_thr[t].oldp}
    /\ gc_untracked' = IF a = 0 THEN gc_untracked ELSE gc_untracked \ {gc_thr[t].oldp}
    /\ UNCHANGED << snask_gc_ptrs, snask_gc_cap, snask_gc_inited, snask_gc_mu, gc_hooks,
                    gc_calls, gc_exit, not_gc_vars >>

\* pthread_mutex_lock(&snask_gc_mu)
GcLock(t) ==
    /\ ~gc_exit.done
    /\ gc_thr[t].pc \in {"replace_lock", "track_lock"}
    /\ snask_gc_mu = 0
    /\ snask_gc_mu' = t
    /\ gc_thr' = [gc_thr EXCEPT ![t].pc = IF gc_thr[t].pc = "replace_lock" THEN "replace" ELSE "track"]
    /\ UNCHANGED << snask_gc_ptrs, snask_gc_cap, snask_gc_inited, gc_hooks, gc_live,
                    gc_bufs, gc_untracked, gc_calls, gc_exit, not_gc_vars >>

\* index of the first registry entry equal to p, 0 when there is none
GcFind(p) ==
    IF \E i \in 1..Len(snask_gc_ptrs) : snask_gc_ptrs[i] = p
    THEN CHOOSE i \in 1..Len(snask_gc_ptrs) :
            /\ snask_gc_ptrs[i] = p
            /\ \A j \in 1..(i - 1) : snask_gc_ptrs[j] # p
    ELSE 0

\* snask_gc_ptrs[i] = newp
GcReplaceAt(ptrs, i, newp) == [ptrs EXCEPT ![i] = newp]

\* the call returns p to the script
GcReturn(t, registered) ==
    /\ gc_bufs' = gc_bufs \cup {gc_thr[t].p}
    /\ gc_untracked' = gc_untracked \cup (IF registered THEN {} ELSE {gc_thr[t].p})
    /\ gc_thr' = [gc_thr EXCEPT ![t] = GcIdle]

\* snask_gc_realloc under the mutex: the loop over the registry
GcReplace(t) ==
    /\ ~gc_exit.done
    /\ gc_thr[t].pc = "replace"
    /\ snask_gc_mu = t
    /\ snask_gc_mu' = 0
    /\ IF GcFind(gc_thr[t].oldp) # 0
       THEN /\ snask_gc_ptrs' = GcReplaceAt(snask_gc_ptrs, GcFind(gc_thr[t].oldp), gc_thr[t].p)
            /\ GcReturn(t, TRUE)
       ELSE /\ gc_thr' = [gc_thr EXCEPT ![t].pc = "track_lock"]
            /\ UNCHANGED << snask_gc_ptrs, gc_bufs, gc_untracked >>
    /\ UNCHANGED << snask_gc_cap, snask_gc_inited, gc_hooks, gc_live, gc_calls, gc_exit, not_gc_vars >>

\* snask_gc_track_ptr under the mutex: grow the registry when it is full
\* (grown = FALSE: its realloc fails) and append p
snask_gc_track_ptr(t, grown) ==
    /\ ~gc_exit.done
    /\ gc_thr[t].pc = "track"
    /\ snask_gc_mu = t
    /\ snask_gc_mu' = 0
    /\ IF Len(snask_gc_ptrs) = snask_gc_cap /\ ~grown
       THEN /\ GcReturn(t, FALSE)
            /\ UNCHANGED << snask_gc_ptrs, snask_gc_cap >>
       ELSE /\ Len(snask_gc_ptrs) < snask_gc_cap => grown
            /\ snask_gc_cap' = IF Len(snask_gc_ptrs) = snask_gc_cap
                               THEN (IF snask_gc_cap # 0 THEN snask_gc_cap * 2 ELSE GcFirstCap)
                               ELSE snask_gc_cap
            /\ snask_gc_ptrs' = Append(snask_gc_ptrs, gc_thr[t].p)
            /\ GcReturn(t, TRUE)
    /\ UNCHANGED << snask_gc_inited, gc_hooks, gc_live, gc_calls, gc_exit, not_gc_vars >>

\* the process exits: snask_gc_cleanup runs once per registration, takes
\* the mutex and frees every entry of the registry
snask_gc_cleanup ==
    /\ ~gc_exit.done
    /\ snask_gc_mu = 0
    /\ gc_exit' = [done |-> TRUE,
                   busy |-> { t \in GcThreads : gc_thr[t].pc # "idle" },
                   freed |-> IF gc_hooks > 0 THEN snask_gc_ptrs ELSE << >>,
                   live |-> gc_live,
                   tracked |-> gc_bufs \ gc_untracked]
    /\ snask_gc_ptrs' = IF gc_hooks > 0 THEN << >> ELSE snask_gc_ptrs
    /\ snask_gc_cap' = IF gc_hooks > 0 THEN 0 ELSE snask_gc_cap
    /\ gc_live' = IF gc_hooks > 0 THEN gc_live \ { snask_gc_ptrs[i] : i \in 1..Len(snask_gc_ptrs) }
                  ELSE gc_live
    /\ UNCHANGED << snask_gc_inited, snask_gc_mu, gc_hooks, gc_bufs, gc_untracked, gc_thr, gc_calls,
                    not_gc_vars >>

GcNext ==
    \/ \E t \in GcThreads, op \in {"snask_gc_malloc", "snask_gc_strdup", "snask_gc_realloc"},
          oldp \in {0} \cup GcAddrs \cup {GcBaseAddr(1)} : GcCall(t, op, oldp)
    \/ \E t \in GcThreads : snask_gc_init_if_needed(t)
    \/ \E t \in GcThreads, a \in {0} \cup GcAddrs \cup {GcBaseAddr(1)} : GcAlloc(t, a)
    \/ \E t \in GcThreads : GcLock(t)
    \/ \E t \in GcThreads : GcReplace(t)
    \/ \E t \in GcThreads, grown \in BOOLEAN : snask_gc_track_ptr(t, grown)
    \/ snask_gc_cleanup

GcSpecInit == BlazeOff /\ ThreadInit /\ (GcInit \/ GcFull) /\ JsonOff

SpecGc == GcSpecInit /\ [][GcNext]_vars

\* number of entries of the registry that hold the address a
GcCount(ptrs, a) == Cardinality({ i \in 1..Len(ptrs) : ptrs[i] = a })

\* no call of the tracker is in progress
GcQuiescent == \A t \in GcThreads : gc_thr[t].pc = "idle"

\* C13: after any interleaving of tracked allocations, reallocations and
\* string duplications by several threads, every live tracked buffer is in
\* the registry exactly once and no replaced address remains in it, so
\* the exit hook frees every tracked buffer exactly once.
C13_RegistryExact ==
    /\ (GcQuiescent /\ ~gc_exit.done) =>
          /\ \A a \in gc_bufs \ gc_untracked : GcCount(snask_gc_ptrs, a) = 1
          /\ \A i \in 1..Len(snask_gc_ptrs) : snask_gc_ptrs[i] \in gc_bufs \ gc_untracked
    /\ (gc_exit.done /\ gc_exit.busy = {}) =>
          /\ \A a \in gc_exit.tracked : GcCount(gc_exit.freed, a) = 1
          /\ \A i \in 1..Len(gc_exit.freed) : gc_exit.freed[i] \in gc_exit.tracked

\* the dispatches made by the thread started on the SnaskThread at p
CallsOf(p) == { k \in 1..Len(thr_calls) : thr_calls[k].thread = p }

\* C14: each successful thread_spawn(name, arg) starts exactly one thread,
\* which makes exactly one dispatch, of f_<name> with the String arg as its
\* only argument, and then terminates; thread_join on the handle returns
\* true only when that thread has terminated.
C14_SpawnOneDispatch ==
    /\ \A k \in 1..Len(thr_ops) :
          (thr_ops[k].op = "spawn" /\ thr_ops[k].ret.tag = "STR") =>
              LET p == thread_handle_to_ptr(thr_ops[k].ret.ptr)
              IN  /\ p \in 1..Len(thr)
                  /\ \A j \in 1..Len(thr_ops) :
                        (thr_ops[j].op = "spawn" /\ thr_ops[j].ret = thr_ops[k].ret) => j = k
                  /\ thr[p].run \in {"created", "in_call", "terminated"}
                  /\ Cardinality(CallsOf(p)) = (IF thr[p].run = "created" THEN 0 ELSE 1)
                  /\ \A c \in CallsOf(p) :
                        /\ thr_calls[c].sym = FullSymbol(thr_ops[k].a1.ptr)
                        /\ thr_calls[c].arg = thr_ops[k].a2
    /\ \A k \in 1..Len(thr_ops) :
          (thr_ops[k].op = "join" /\ thr_ops[k].ret = make_bool(TRUE)) =>
              thr_ops[k].run = "terminated"

\* ------------------------------------------------------------------------
\* JSON parser
\* ------------------------------------------------------------------------
\* The parser reads the text byte by byte: p->s as the sequence of its bytes.  The literal atoms
\* the parser can look into are spelled out; any other literal atom stays one unit that
\* behaves as a block of letters.
Spelled(t) ==
    CASE t = "null" -> << "n", "u", "l", "l" >>
      [] t = "true" -> << "t", "r", "u", "e" >>
      [] t = "false" -> << "f", "a", "l", "s", "e" >>
      [] t = "inf" -> << "i", "n", "f" >>
      [] t = "-inf" -> << "-", "i", "n", "f" >>
      [] t = "nan" -> << "n", "a", "n" >>
      [] t = "\r\n" -> << "\r", "\n" >>
      [] OTHER -> << >>

RECURSIVE Units(_)
Units(s) ==
    IF s = << >> THEN << >>
    ELSE LET h == Head(s)
         IN  (IF AtomLen(h.t) = 1 THEN [k \in 1..h.n |-> [t |-> h.t, n |-> 1]]
              ELSE IF Spelled(h.t) # << >> THEN [k \in 1..h.n |-> [t |-> Spelled(h.t)[k], n |-> 1]]
              ELSE << h >>)
             \o Units(Tail(s))

\* p->s[p->i]; the index one past the last byte holds the terminator
JpAt(u, i) == IF i <= Len(u) THEN u[i].t ELSE "NUL"

RECURSIVE jp_skip_ws(_, _)
jp_skip_ws(u, i) == IF JpAt(u, i) \in {" ", "\n", "\r", "\t"} THEN jp_skip_ws(u, i + 1) ELSE i

jp_consume(u, i, ch) ==
    LET j == jp_skip_ws(u, i)
    IN  IF JpAt(u, j) = ch THEN [ok |-> TRUE, i |-> j + 1] ELSE [ok |-> FALSE, i |-> j]

jp_match(u, i, lit) ==
    LET j == jp_skip_ws(u, i)
    IN  IF \A k \in 1..Len(lit) : JpAt(u, j + k - 1) = lit[k]
        THEN [ok |-> TRUE, i |-> j + Len(lit)]
        ELSE [ok |-> FALSE, i |-> j]

\* isxdigit(h) and the value the parser gives the digit
HexVal(t) ==
    CASE DigitVal(t) >= 0 -> DigitVal(t)
      [] t \in {"a", "A"} -> 10 [] t \in {"b", "B"} -> 11 [] t \in {"c", "C"} -> 12
      [] t \in {"d", "D"} -> 13 [] t \in {"e", "E"} -> 14 [] t \in {"f", "F"} -> 15
      [] OTHER -> -1

\* (char)code for the codes up to 0x7F that the model names
ChrOf(code) ==
    CASE code = 0 -> "NUL" [] code = 1 -> "SOH" [] code = 8 -> "BS" [] code = 9 -> "\t"
      [] code = 10 -> "\n" [] code = 12 -> "\f" [] code = 13 -> "\r" [] code = 16 -> "DLE"
      [] code = 17 -> "DC1" [] code = 34 -> "\"" [] code = 47 -> "/" [] code = 92 -> "\\"
      [] code \in 48..57 -> Digit(code - 48) [] code = 65 -> "A" [] code = 97 -> "a"

\* the C string held by a buffer into which '\0' bytes were appended
TruncNul(sb) == BeforeChr(sb, "NUL")

\* the bytes u[i .. j] as pieces: neighbouring equal bytes make one run
Pack(u, i, j) ==
    LET starts == { k \in i..j : k = i \/ u[k].t # u[k - 1].t \/ AtomLen(u[k].t) # 1 }
        nth(m) == CHOOSE k \in starts : Cardinality({ x \in starts : x < k }) = m - 1
        last(k) == IF \E x \in starts : x > k
                   THEN (CHOOSE x \in starts : x > k /\ \A y \in starts : y > k => x <= y) - 1
                   ELSE j
    IN  [m \in 1..Cardinality(starts) |->
            [t |-> u[nth(m)].t,
             n |-> IF AtomLen(u[nth(m)].t) = 1 THEN last(nth(m)) - nth(m) + 1 ELSE u[nth(m)].n]]

\* the first index from i on that holds a quote, a backslash or the terminator: the bytes
\* before it are copied to the buffer one by one
PlainEnd(u, i) ==
    LET stops == { j \in i..(Len(u) + 1) : JpAt(u, j) \in {"\"", "\\", "NUL"} }
    IN  CHOOSE j \in stops : \A k \in stops : j <= k

JpStrErr(i, msg) == [i |-> i, err |-> msg, str |-> << >>]

\* one turn of the loop of jp_parse_string at a byte that is no quote: the bytes read (n)
\* and the bytes appended to the buffer (out)
JpStringStep(u, i) ==
    LET esc == JpAt(u, i + 1)
        h == [k \in 1..4 |-> HexVal(JpAt(u, i + 1 + k))]
        code == 4096 * h[1] + 256 * h[2] + 16 * h[3] + h[4]
        copy(c) == [err |-> "", n |-> 2, out |-> Str(c)]
    IN  IF u[i].t # "\\"
        THEN [err |-> "", n |-> PlainEnd(u, i) - i, out |-> Pack(u, i, PlainEnd(u, i) - 1)]
        ELSE CASE esc \in {"\"", "\\", "/"} -> copy(esc)
               [] esc = "b" -> copy("BS")
               [] esc = "f" -> copy("\f")
               [] esc = "n" -> copy("\n")
               [] esc = "r" -> copy("\r")
               [] esc = "t" -> copy("\t")
               [] esc = "u" ->
                    IF \E k \in 1..4 : h[k] < 0
                    THEN [err |-> "Escape \\u invalido em string JSON.", n |-> 0, out |-> << >>]
                    ELSE [err |-> "", n |-> 6,
                          out |-> Str(IF code <= 127 THEN ChrOf(code) ELSE "?")]
               [] OTHER -> [err |-> "Escape invalido em string JSON.", n |-> 0, out |-> << >>]

\* the loop of jp_parse_string; sb is the buffer built so far
RECURSIVE JpStringLoop(_, _, _)
JpStringLoop(u, i, sb) ==
    IF JpAt(u, i) = "NUL" THEN JpStrErr(i, "String JSON nao terminada.")
    ELSE IF u[i].t = "\"" THEN [i |-> i + 1, err |-> "", str |-> TruncNul(sb)]
    ELSE LET turn(step) == IF step.err # "" THEN JpStrErr(i, step.err)
                           ELSE JpStringLoop(u, i + step.n, Cat(sb, step.out))
         IN  turn(JpStringStep(u, i))

jp_parse_string(u, i) ==
    LET j == jp_skip_ws(u, i)
    IN  IF JpAt(u, j) # "\"" THEN JpStrErr(j, "Esperado '\"' no inicio da string JSON.")
        ELSE JpStringLoop(u, j + 1, << >>)

\* number of decimal digits at u[i], u[i + 1], ...
RECURSIVE DigitsRun(_, _)
DigitsRun(u, i) == IF DigitVal(JpAt(u, i)) >= 0 THEN 1 + DigitsRun(u, i + 1) ELSE 0

\* the value of the k decimal digits at u[i .. i + k - 1], continuing acc
RECURSIVE DigitsVal(_, _, _, _)
DigitsVal(u, i, k, acc) ==
    IF k = 0 THEN acc ELSE DigitsVal(u, i + 1, k - 1, 10 * acc + DigitVal(JpAt(u, i)))

RECURSIVE HexRun(_, _)
HexRun(u, i) == IF HexVal(JpAt(u, i)) >= 0 THEN 1 + HexRun(u, i + 1) ELSE 0

RECURSIVE HexRunVal(_, _, _, _)
HexRunVal(u, i, k, acc) ==
    IF k = 0 THEN acc ELSE HexRunVal(u, i + 1, k - 1, 16 * acc + HexVal(JpAt(u, i)))

\* the largest and the smallest decimal exponent of a leading digit of a finite non-zero double
DblMaxExp10 == 308
DblMinExp10 == -324

\* the double nearest to (-1)^neg * m * 10^e, m >= 0
Dbl(neg, m, e) ==
    LET d == StripZeros(m, e)
        X == NumDigits(d.m) + d.e - 1
        sm == IF neg THEN 0 - d.m ELSE d.m
    IN  IF m = 0 THEN (IF neg THEN make_num_fp("-0", 0, 0) ELSE make_num_val(0))
        ELSE IF X > DblMaxExp10 THEN make_num_fp(IF neg THEN "-inf" ELSE "inf", 0, 0)
        ELSE IF X < DblMinExp10 THEN (IF neg THEN make_num_fp("-0", 0, 0) ELSE make_num_val(0))
        ELSE IF d.e >= 0 /\ X <= 8 THEN make_num_val(sm * Pow10(d.e))
        ELSE make_num_fp("dec", sm, d.e)

\* strtod(p->s + p->i, &end): optional sign, then "inf", "nan", a hexadecimal integer or a
\* decimal number with optional fraction and exponent; end = i when nothing converts
strtod(u, i) ==
    LET neg == JpAt(u, i) = "-"
        j == IF JpAt(u, i) \in {"-", "+"} THEN i + 1 ELSE i
        word == << JpAt(u, j), JpAt(u, j + 1), JpAt(u, j + 2) >>
        hex(nH) == [end |-> j + 2 + nH, v |-> Dbl(neg, HexRunVal(u, j + 2, nH, 0), 0)]
        \* the exponent part, after a mantissa m of nF fraction digits that ends before mEnd
        exponent(mEnd, m, nF) ==
            LET eNeg == JpAt(u, mEnd + 1) = "-"
                eAt == IF JpAt(u, mEnd + 1) \in {"-", "+"} THEN mEnd + 2 ELSE mEnd + 1
                digits(nE) ==
                    LET ex == DigitsVal(u, eAt, nE, 0)
                    IN  [end |-> IF nE > 0 THEN eAt + nE ELSE mEnd,
                         v |-> Dbl(neg, m, (IF eNeg THEN 0 - ex ELSE ex) - nF)]
            IN  digits(IF JpAt(u, mEnd) \in {"e", "E"} THEN DigitsRun(u, eAt) ELSE 0)
        \* the mantissa: nI integer digits, then a point and nF fraction digits
        mantissa(nI, nF) ==
            IF nI + nF = 0 THEN [end |-> i, v |-> make_num_val(0)]
            ELSE exponent(j + nI + (IF JpAt(u, j + nI) = "." THEN 1 + nF ELSE 0),
                          DigitsVal(u, j + nI + 1, nF, DigitsVal(u, j, nI, 0)), nF)
        integer(nI) ==
            mantissa(nI, IF JpAt(u, j + nI) = "." THEN DigitsRun(u, j + nI + 1) ELSE 0)
    IN  IF word = << "i", "n", "f" >>
        THEN [end |-> j + 3, v |-> make_num_fp(IF neg THEN "-inf" ELSE "inf", 0, 0)]
        ELSE IF word = << "n", "a", "n" >> THEN [end |-> j + 3, v |-> make_num_fp("nan", 0, 0)]
        ELSE IF JpAt(u, j) = "0" /\ JpAt(u, j + 1) \in {"x", "X"} /\ HexRun(u, j + 2) > 0
             THEN hex(HexRun(u, j + 2))
        ELSE integer(DigitsRun(u, j))

JpRes(i, val) == [i |-> i, err |-> "", v |-> val]
JpErr(i, msg) == [i |-> i, err |-> msg, v |-> make_nil]

jp_parse_number(u, i) ==
    LET number(j, r) ==
            IF r.end = j THEN JpErr(j, "Numero JSON invalido.") ELSE JpRes(r.end, r.v)
    IN  number(jp_skip_ws(u, i), strtod(u, jp_skip_ws(u, i)))

RECURSIVE jp_parse_value(_, _)
RECURSIVE JpObjectLoop(_, _, _)
RECURSIVE JpArrayLoop(_, _, _)

\* the while loop of jp_parse_object; entries are the pairs pushed so far
JpObjectLoop(u, i, entries) ==
    LET \* after a member: '}' ends the object, ',' goes on with the next member
        rest(pushed, j) ==
            LET closing == jp_consume(u, jp_skip_ws(u, j), "}")
                comma == jp_consume(u, closing.i, ",")
            IN  IF closing.ok THEN JpRes(closing.i, make_obj(pushed))
                ELSE IF ~comma.ok THEN JpErr(comma.i, "Esperado ',' ou '}' em objeto JSON.")
                ELSE JpObjectLoop(u, comma.i, pushed)
        value(key, val) ==
            IF val.err # "" THEN JpErr(val.i, val.err)
            ELSE rest(Append(entries, Entry(key.str, val.v)), val.i)
        member(key) ==
            LET colon == jp_consume(u, key.i, ":")
            IN  IF key.err # "" THEN JpErr(key.i, key.err)
                ELSE IF ~colon.ok
                     THEN JpErr(colon.i, "Esperado ':' apos chave do objeto JSON.")
                ELSE value(key, jp_parse_value(u, colon.i))
    IN  IF JpAt(u, i) = "NUL" THEN JpErr(i, "Objeto JSON nao terminado.")
        ELSE member(jp_parse_string(u, i))

jp_parse_object(u, i) ==
    LET opening == jp_consume(u, i, "{")
        closing == jp_consume(u, jp_skip_ws(u, opening.i), "}")
    IN  IF ~opening.ok THEN JpErr(opening.i, "Esperado '{'.")
        ELSE IF closing.ok THEN JpRes(closing.i, make_obj(<< >>))
        ELSE JpObjectLoop(u, closing.i, << >>)

\* the while loop of jp_parse_array; the key of an element is its position, printed with "%d"
JpArrayLoop(u, i, entries) ==
    LET rest(pushed, j) ==
            LET closing == jp_consume(u, jp_skip_ws(u, j), "]")
                comma == jp_consume(u, closing.i, ",")
            IN  IF closing.ok THEN JpRes(closing.i, make_obj(pushed))
                ELSE IF ~comma.ok THEN JpErr(comma.i, "Esperado ',' ou ']' em array JSON.")
                ELSE JpArrayLoop(u, comma.i, pushed)
        element(val) ==
            IF val.err # "" THEN JpErr(val.i, val.err)
            ELSE rest(Append(entries, Entry(snprintf(32, FmtD(Len(entries))), val.v)), val.i)
    IN  IF JpAt(u, i) = "NUL" THEN JpErr(i, "Array JSON nao terminado.")
        ELSE element(jp_parse_value(u, i))

jp_parse_array(u, i) ==
    LET opening == jp_consume(u, i, "[")
        closing == jp_consume(u, jp_skip_ws(u, opening.i), "]")
    IN  IF ~opening.ok THEN JpErr(opening.i, "Esperado '['.")
        ELSE IF closing.ok THEN JpRes(closing.i, make_obj(<< >>))
        ELSE JpArrayLoop(u, closing.i, << >>)

jp_parse_value(u, i) ==
    LET j == jp_skip_ws(u, i)
        c == JpAt(u, j)
        string(str) == IF str.err # "" THEN JpErr(str.i, str.err) ELSE JpRes(str.i, make_str(str.str))
    IN  IF c = "NUL" THEN JpErr(j, "JSON vazio.")
        ELSE IF c = "\"" THEN string(jp_parse_string(u, j))
        ELSE IF c = "{" THEN jp_parse_object(u, j)
        ELSE IF c = "[" THEN jp_parse_array(u, j)
        ELSE IF jp_match(u, j, << "n", "u", "l", "l" >>).ok THEN JpRes(j + 4, make_nil)
        ELSE IF jp_match(u, j, << "t", "r", "u", "e" >>).ok THEN JpRes(j + 4, make_bool(TRUE))
        ELSE IF jp_match(u, j, << "f", "a", "l", "s", "e" >>).ok THEN JpRes(j + 5, make_bool(FALSE))
        ELSE IF c = "-" \/ DigitVal(c) >= 0 THEN jp_parse_number(u, j)
        ELSE JpErr(j, "Token inesperado no JSON.")

\* the three-entry Object json_parse_ex and sjson_path_get return
ResultObject(ok, value, error) ==
    make_obj(<< Entry(Str("ok"), make_bool(ok)), Entry(Str("value"), value),
                Entry(Str("error"), make_str(error)) >>)

\* the silent parse
json_parse(data) ==
    LET parsed(u, r) ==
            IF r.err # "" THEN make_nil
            ELSE IF JpAt(u, jp_skip_ws(u, r.i)) # "NUL" THEN make_nil
            ELSE r.v
        text(u) == parsed(u, jp_parse_value(u, 1))
    IN  IF data.tag # "STR" THEN make_nil ELSE text(Units(data.ptr))

\* the explicit parse
json_parse_ex(data) ==
    LET result(r, err) ==
            ResultObject(err = "", IF err = "" THEN r.v ELSE make_nil,
                         IF err = "" THEN << >> ELSE Str(err))
        parsed(u, r) ==
            result(r, IF r.err # "" THEN r.err
                      ELSE IF JpAt(u, jp_skip_ws(u, r.i)) # "NUL"
                           THEN "Conteudo extra apos o JSON."
                      ELSE "")
        text(u) == parsed(u, jp_parse_value(u, 1))
    IN  IF data.tag # "STR" THEN make_nil ELSE text(Units(data.ptr))

\* ------------------------------------------------------------------------
\* Sjson: array helpers and path lookup
\* ------------------------------------------------------------------------
SegCap == 256
MsgCap == 512
IntMax == 2147483647

sjson_new_array == make_obj(<< >>)

\* (int)d for a Number d that is finite and within the range of int
CInt(d) ==
    IF ~IsFp(d) THEN d.num
    ELSE IF d.fp.cls = "-0" THEN 0
    ELSE IF d.num < 0 THEN 0 - ((0 - d.num) \div Pow10(0 - d.fp.exp))
    ELSE d.num \div Pow10(0 - d.fp.exp)

\* the outcome of a call on an Object: the Bool returned, the entries afterwards, and
\* whether the call crashed
SjOut(ret, entries, fault) == [ret |-> make_bool(ret), entries |-> entries, fault |-> fault]

\* the entries count .. idx appended by sjson_arr_set, all Nil
NilFill(count, idx) == [k \in 1..(idx + 1 - count) |-> Entry(snprintf(32, FmtD(count + k - 1)), make_nil)]

SetValueAt(entries, idx, value) == [entries EXCEPT ![idx + 1].value = value]

sjson_arr_set(arr, idx_val, value) ==
    LET o == arr.ptr
        idx == CInt(idx_val)
    IN  IF arr.tag # "OBJ" \/ idx_val.tag # "NUM" THEN SjOut(FALSE, arr.ptr, FALSE)
        ELSE IF idx < 0 THEN SjOut(FALSE, o, FALSE)
        ELSE IF idx < Len(o) THEN SjOut(TRUE, SetValueAt(o, idx, value), FALSE)
        \* idx + 1 overflows int: the size passed to realloc cannot be allocated and the
        \* store to values[idx] faults
        ELSE IF idx = IntMax THEN SjOut(FALSE, o, TRUE)
        ELSE SjOut(TRUE, SetValueAt(o \o NilFill(Len(o), idx), idx, value), FALSE)

sjson_arr_push(arr, value) ==
    IF arr.tag # "OBJ" THEN SjOut(FALSE, arr.ptr, FALSE)
    ELSE SjOut(TRUE, Append(arr.ptr, Entry(snprintf(32, FmtD(Len(arr.ptr))), value)), FALSE)

sjson_is_digits(seg) == seg # << >> /\ \A k \in 1..Len(seg) : DigitVal(seg[k].t) >= 0

\* the index of the first entry named seg, 0 when there is none
SjFindName(o, seg) ==
    IF \E k \in 1..Len(o) : o[k].name = seg
    THEN CHOOSE k \in 1..Len(o) : o[k].name = seg /\ \A j \in 1..(k - 1) : o[j].name # seg
    ELSE 0

\* the while loop of sjson_path_get: cur is the Value reached, p the rest of the path
RECURSIVE SjPathLoop(_, _)
SjPathLoop(cur, p) ==
    IF p = << >> THEN ResultObject(TRUE, cur, << >>)
    ELSE LET seg == Take(BeforeChr(p, "."), SegCap - 1)
             rest == IF HasChr(p, ".") THEN AfterChr(p, ".") ELSE << >>
             o == cur.ptr
             idx == atoi(seg)
             at == IF sjson_is_digits(seg)
                   THEN (IF idx >= 0 /\ idx < Len(o) THEN idx + 1 ELSE 0)
                   ELSE SjFindName(o, seg)
         IN  IF cur.tag # "OBJ"
             THEN ResultObject(FALSE, make_nil, Str("path_get: alvo nao e objeto/array."))
             ELSE IF seg = << >>
             THEN ResultObject(FALSE, make_nil, Str("path_get: segmento vazio."))
             ELSE IF at = 0
             THEN ResultObject(FALSE, make_nil,
                      snprintf(MsgCap, CatAll(<< Str("path_get: segmento '"), seg,
                                                 Str("' nao encontrado.") >>)))
             ELSE SjPathLoop(o[at].value, rest)

sjson_path_get(root, path_val) ==
    IF path_val.tag # "STR" THEN make_nil ELSE SjPathLoop(root, path_val.ptr)

\* ------------------------------------------------------------------------
\* Object accessors
\* ------------------------------------------------------------------------
json_get(obj_val, key_val) ==
    IF obj_val.tag # "OBJ" \/ key_val.tag # "STR" THEN make_nil
    ELSE IF SjFindName(obj_val.ptr, key_val.ptr) = 0 THEN make_nil
    ELSE obj_val.ptr[SjFindName(obj_val.ptr, key_val.ptr)].value

json_has(obj_val, key_val) ==
    make_bool(obj_val.tag = "OBJ" /\ key_val.tag = "STR"
              /\ SjFindName(obj_val.ptr, key_val.ptr) # 0)

\* values[idx] when 0 <= idx < count, Nil otherwise
ValueAt(o, idx) == IF idx >= 0 /\ idx < Len(o) THEN o[idx + 1].value ELSE make_nil

json_index(obj_val, idx_val) ==
    IF obj_val.tag # "OBJ" \/ idx_val.tag # "NUM" THEN make_nil
    ELSE ValueAt(obj_val.ptr, CInt(idx_val))

sjson_arr_get(arr, idx_val) ==
    IF arr.tag # "OBJ" \/ idx_val.tag # "NUM" THEN make_nil
    ELSE ValueAt(arr.ptr, CInt(idx_val))

\* the tag of the index is not looked at: num is 0 in every Value that is no Number or Bool
s_get_member(v_obj, index_val) ==
    IF v_obj.tag # "OBJ" THEN make_nil ELSE ValueAt(v_obj.ptr, CInt(index_val))

s_concat(s1, s2) ==
    IF s1.tag # "STR" \/ s2.tag # "STR" THEN make_nil ELSE make_str(Cat(s1.ptr, s2.ptr))

\* a setter that never looks for the key
json_set_append(obj_val, key_val, value) ==
    IF obj_val.tag # "OBJ" \/ key_val.tag # "STR" THEN SjOut(FALSE, obj_val.ptr, FALSE)
    ELSE SjOut(TRUE, Append(obj_val.ptr, Entry(key_val.ptr, value)), FALSE)

json_set(obj_val, key_val, value) ==
    IF obj_val.tag # "OBJ" \/ key_val.tag # "STR" THEN SjOut(FALSE, obj_val.ptr, FALSE)
    ELSE IF SjFindName(obj_val.ptr, key_val.ptr) # 0
         THEN SjOut(TRUE, SetValueAt(obj_val.ptr, SjFindName(obj_val.ptr, key_val.ptr) - 1, value),
                    FALSE)
    ELSE SjOut(TRUE, Append(obj_val.ptr, Entry(key_val.ptr, value)), FALSE)

\* ------------------------------------------------------------------------
\* A script that uses the JSON engine: inputs
\* ------------------------------------------------------------------------
Txt(seq) == CatAll([k \in 1..Len(seq) |-> Str(seq[k])])

JsonAlphabet == {"{", "}", "[", "]", "\"", ":", ",", " ", "0", "1", "-", "a", "\\", "null"}

\* every text of at most MaxTextLen atoms of the alphabet
ShortTexts == UNION { { Txt(f) : f \in [1..k -> JsonAlphabet] } : k \in 0..MaxTextLen }

TextSamples ==
    { Txt(<< "{", "\"", "a", "\"", ":", "1", "}" >>),
      Txt(<< "{", "\"", "a", "\"", " ", "1", "}" >>),
      Txt(<< "{", "\"", "a", "\"", ":", "1", " ", "\"", "b", "\"", ":", "1", "}" >>),
      Txt(<< "{", "\"", "a", "\"", ":", "1", ",", "}" >>),
      Txt(<< "{", "\"", "a", "\"", ":", "1", ",", "\"", "a", "\"", ":", "2", "}" >>),
      Txt(<< "{", "\"", "a", "\"", ":", "{", "\"", "b", "\"", ":", "[", "1", "0", ",", "2", "0",
             ",", "3", "0", "]", "}", "}" >>),
      Txt(<< "[", "1", " ", "1", "]" >>),
      Txt(<< "[", "1", ",", "2", "]" >>),
      Txt(<< " ", "[", " ", "1", " ", ",", " ", "true", " ", "]", "\n" >>),
      Txt(<< "[", "1", ",", "[", "0", "]", ",", "{", "\"", "a", "\"", ":", "null", "}", "]" >>),
      Txt(<< "[", "\"", "x", "\"", ",", "false", ",", "1", ".", "5", "]" >>),
      Txt(<< "1", ".", "5" >>), Txt(<< "1", "." >>), Txt(<< "-", ".", "5" >>),
      Txt(<< "1", "e", "9", "9", "9" >>), Txt(<< "1", "e", "+", "0", "2" >>),
      Txt(<< "-inf" >>), Txt(<< "inf" >>), Txt(<< "nan" >>), Txt(<< "-", "nan" >>),
      Txt(<< "0", "x", "1", "f" >>), Txt(<< "+", "1" >>), Txt(<< "true", "false" >>),
      Txt(<< "\"", "\\", "u", "0", "0", "4", "1", "\"" >>),
      Txt(<< "\"", "\\", "u", "0", "0", "e", "9", "\"" >>),
      Txt(<< "\"", "\\", "u", "0", "0", "g", "0", "\"" >>),
      Txt(<< "\"", "a", "\n", "b", "\"" >>),
      Txt(<< "\"", "a", "\\", "n", "\\", "/", "\\", "t", "b", "\"" >>) }

JsonTexts == ShortTexts \cup TextSamples

Numbers ==
    { make_num_val(n) : n \in {0, 1, -1, 7, 123456, 1000000, 1234567} }
    \cup { make_num_fp("dec", 5, -1), make_num_fp("inf", 0, 0), make_num_fp("-inf", 0, 0),
           make_num_fp("nan", 0, 0) }

Strings ==
    { make_str(t) : t \in { << >>, Str("a"), Str("pong"), Txt(<< "a", "\"", "b" >>), Str("\\"),
                            Str("\n"), Str("\t"), Str("\r"), Str("\f"), Str("BS"), Str("SOH"),
                            Str("DLE"), Txt(<< "a", "/" >>), Txt(<< "{", "}" >>), Rep("a", 3) } }

Scalars == { make_nil, make_bool(TRUE), make_bool(FALSE) } \cup Numbers \cup Strings

\* the Object of the spec's path example: {"a":{"b":[10,20,30]}}
PathExample ==
    make_obj(<< Entry(Str("a"), make_obj(<< Entry(Str("b"),
        make_obj(<< Entry(Str("0"), make_num_val(10)), Entry(Str("1"), make_num_val(20)),
                    Entry(Str("2"), make_num_val(30)) >>)) >>)) >>)

Objects ==
    { make_obj(<< >>), PathExample }
    \cup { make_obj(<< Entry(k, x) >>) :
             k \in { << >>, Str("a"), Str("0"), Txt(<< "k", "\"" >>) },
             x \in { make_nil, make_num_val(1), make_str(Str("a")), make_num_val(1234567),
                     make_num_fp("inf", 0, 0), make_obj(<< >>) } }
    \cup { make_obj(<< Entry(k1, make_num_val(1)), Entry(k2, make_str(Str("x"))) >>) :
             k1 \in { Str("a"), Str("b"), Str("0") }, k2 \in { Str("a"), Str("b"), Str("1") } }
    \cup { make_obj(<< Entry(Rep("k", SegCap - 1), make_num_val(1)) >>),
           make_obj(<< Entry(Str("5"), make_num_val(1)) >>) }

JsonValues == Scalars \cup Objects

PushValues == { make_str(Str("x")) }
SetValues == { make_str(Str("y")) }
SetIndexes ==
    { make_num_val(-1), make_num_val(0), make_num_val(2), make_num_val(IntMax), make_str(Str("0")) }

\* indexes for the reads, and Values that are no Number where an index is expected
ReadIndexes == { make_num_val(-1), make_num_val(0), make_num_val(2), make_num_val(IntMax) }
WrongIndexes == { make_str(Str("0")), make_bool(TRUE), make_nil }

\* keys for json_set, json_get and json_has: names that Objects of the script have or lack,
\* and a Number where a String is expected
Keys == { make_str(Str("a")), make_str(Str("1")), make_num_val(0) }

Paths ==
    { make_str(t) : t \in { << >>, Str("a"), Txt(<< "a", ".", "b", ".", "1" >>),
                            Txt(<< "a", ".", "x" >>), Txt(<< "a", "." >>), Txt(<< ".", "a" >>),
                            Txt(<< "a", ".", ".", "b" >>), Str("0"), Str("5"),
                            Txt(<< "4", "2", "9", "4", "9", "6", "7", "2", "9", "6" >>),
                            Txt(<< "a", ".", "b", ".", "1", ".", "c" >>),
                            Rep("k", SegCap) } }

\* ------------------------------------------------------------------------
\* A script that uses the JSON engine: calls
\* ------------------------------------------------------------------------
\* the script starts from a Value, from a fresh array, or from a text
JsonInit ==
    /\ json_silent = NoValue
    /\ json_ex = NoValue
    /\ json_round = 0
    /\ sj_op = NoSjOp
    /\ sj_ops = 0
    /\ \/ /\ json_pc = "value"
          /\ json_val \in JsonValues
          /\ json_origin = "any"
          /\ json_mode = "none"
          /\ json_text = << >>
       \/ /\ json_pc = "value"
          /\ json_val = sjson_new_array
          /\ json_origin = "array"
          /\ json_mode = "none"
          /\ json_text = << >>
       \/ /\ json_pc = "text"
          /\ json_val = NoValue
          /\ json_origin = "none"
          /\ json_mode = "input"
          /\ json_text \in JsonTexts

\* the text json_stringify_pretty(val) or json_stringify(val) returns, as a String
Stringified(val, pretty) ==
    make_str(IF pretty THEN json_stringify_pretty(val) ELSE json_stringify(val))

\* a call that takes the Value from the script: the Value at hand is Nil afterwards
JsonStringifyTake(pretty) ==
    /\ json_pc = "value"
    /\ json_pc' = "text"
    /\ json_mode' = IF pretty THEN "pretty" ELSE "compact"
    /\ json_text' = Stringified(json_val, pretty).ptr
    /\ json_val' = make_nil
    /\ sj_op' = [op |-> "stringify", arr |-> json_val, arg |-> make_bool(pretty),
                 value |-> make_nil, ret |-> Stringified(json_val, pretty), fault |-> FALSE]
    /\ UNCHANGED << json_origin, json_silent, json_ex, json_round, sj_ops >>
    /\ UNCHANGED not_json_vars

\* json_stringify(v) or json_stringify_pretty(v): the text is the payload of the String returned
JsonStringify(pretty) ==
    /\ json_pc = "value"
    /\ json_pc' = "text"
    /\ json_mode' = IF pretty THEN "pretty" ELSE "compact"
    /\ json_text' = Stringified(json_val, pretty).ptr
    /\ sj_op' = [op |-> "stringify", arr |-> json_val, arg |-> make_bool(pretty),
                 value |-> make_nil, ret |-> Stringified(json_val, pretty), fault |-> FALSE]
    /\ UNCHANGED << json_val, json_origin, json_silent, json_ex, json_round, sj_ops >>
    /\ UNCHANGED not_json_vars

\* the same call once more, on the Value as it is now; value is the String it returns
JsonStringifyAgain ==
    /\ json_pc = "text"
    /\ sj_op.op = "stringify"
    /\ sj_op' = [sj_op EXCEPT !.op = "stringify_again",
                              !.value = Stringified(json_val, json_mode = "pretty")]
    /\ UNCHANGED << json_pc, json_val, json_origin, json_mode, json_text, json_silent, json_ex,
                    json_round, sj_ops >>
    /\ UNCHANGED not_json_vars

JsonParse ==
    /\ json_pc = "text"
    /\ json_silent = NoValue
    /\ json_silent' = json_parse(make_str(json_text))
    /\ UNCHANGED << json_pc, json_val, json_origin, json_mode, json_text, json_ex, json_round,
                    sj_op, sj_ops >>
    /\ UNCHANGED not_json_vars

JsonParseEx ==
    /\ json_pc = "text"
    /\ json_ex = NoValue
    /\ json_ex' = json_parse_ex(make_str(json_text))
    /\ UNCHANGED << json_pc, json_val, json_origin, json_mode, json_text, json_silent,
                    json_round, sj_op, sj_ops >>
    /\ UNCHANGED not_json_vars

\* the text at hand is a JSON array
IsArrayText(text) == LET u == Units(text) IN JpAt(u, jp_skip_ws(u, 1)) = "["

\* the script goes on with the Value it has parsed
JsonAgain ==
    /\ json_pc = "text"
    /\ json_silent # NoValue
    /\ json_ex # NoValue
    /\ json_round < MaxJsonRounds
    /\ json_pc' = "value"
    /\ json_val' = json_silent
    /\ json_origin' = IF json_silent.tag = "OBJ" /\ IsArrayText(json_text) THEN "array" ELSE "any"
    /\ json_mode' = "none"
    /\ json_text' = << >>
    /\ json_silent' = NoValue
    /\ json_ex' = NoValue
    /\ json_round' = json_round + 1
    /\ sj_op' = NoSjOp
    /\ UNCHANGED sj_ops
    /\ UNCHANGED not_json_vars

\* a call of sjson_arr_push, sjson_arr_set or sjson_path_get, with the Value it was made on
SjOp(op, arg, value, ret, fault) ==
    [op |-> op, arr |-> json_val, arg |-> arg, value |-> value, ret |-> ret, fault |-> fault]

ArrPush(x) ==
    LET out == sjson_arr_push(json_val, x)
    IN  /\ json_pc = "value"
        /\ sj_ops < MaxSjsonOps
        /\ json_val' = IF json_val.tag = "OBJ" THEN make_obj(out.entries) ELSE json_val
        /\ sj_op' = SjOp("arr_push", make_nil, x, out.ret, out.fault)
        /\ sj_ops' = sj_ops + 1
        /\ UNCHANGED << json_pc, json_origin, json_mode, json_text, json_silent, json_ex, json_round >>
        /\ UNCHANGED not_json_vars

ArrSet(idx, x) ==
    LET out == sjson_arr_set(json_val, idx, x)
    IN  /\ json_pc = "value"
        /\ sj_ops < MaxSjsonOps
        /\ json_pc' = IF out.fault THEN "fault" ELSE json_pc
        /\ json_val' = IF json_val.tag = "OBJ" THEN make_obj(out.entries) ELSE json_val
        /\ sj_op' = SjOp("arr_set", idx, x, out.ret, out.fault)
        /\ sj_ops' = sj_ops + 1
        /\ UNCHANGED << json_origin, json_mode, json_text, json_silent, json_ex, json_round >>
        /\ UNCHANGED not_json_vars

JsonSet(key, x) ==
    LET out == json_set(json_val, key, x)
    IN  /\ json_pc = "value"
        /\ sj_ops < MaxSjsonOps
        /\ json_val' = IF json_val.tag = "OBJ" THEN make_obj(out.entries) ELSE json_val
        \* an Object that json_set has written to is no longer the work of the array helpers
        \* alone: "mixed" when it started as an empty array
        /\ json_origin' = IF json_val.tag = "OBJ" /\ key.tag = "STR"
                          THEN (IF json_origin \in {"array", "mixed"} /\ json_round = 0
                                THEN "mixed" ELSE "any")
                          ELSE json_origin
        /\ sj_op' = SjOp("set", key, x, out.ret, out.fault)
        /\ sj_ops' = sj_ops + 1
        /\ UNCHANGED << json_pc, json_mode, json_text, json_silent, json_ex, json_round >>
        /\ UNCHANGED not_json_vars

\* a call that reads the Value at hand and returns ret
SjRead(op, arg, ret) ==
    /\ json_pc = "value"
    /\ sj_op' = SjOp(op, arg, make_nil, ret, FALSE)
    /\ UNCHANGED << json_pc, json_val, json_origin, json_mode, json_text, json_silent, json_ex,
                    json_round, sj_ops >>
    /\ UNCHANGED not_json_vars

ArrGet(idx) == SjRead("arr_get", idx, sjson_arr_get(json_val, idx))

JsonIndex(idx) == SjRead("index", idx, json_index(json_val, idx))

GetMember(idx) == SjRead("get_member", idx, s_get_member(json_val, idx))

PathGet(path) ==
    /\ json_pc = "value"
    /\ sj_op' = SjOp("path_get", path, make_nil, sjson_path_get(json_val, path), FALSE)
    /\ UNCHANGED << json_pc, json_val, json_origin, json_mode, json_text, json_silent, json_ex,
                    json_round, sj_ops >>
    /\ UNCHANGED not_json_vars

JsonNext ==
    \/ \E pretty \in BOOLEAN : JsonStringify(pretty)
    \/ JsonStringifyAgain
    \/ JsonParse
    \/ JsonParseEx
    \/ JsonAgain
    \/ \E x \in PushValues : ArrPush(x)
    \/ \E idx \in SetIndexes, x \in SetValues : ArrSet(idx, x)
    \/ \E key \in Keys, x \in SetValues : JsonSet(key, x)
    \/ \E idx \in ReadIndexes : ArrGet(idx)
    \/ \E idx \in ReadIndexes : JsonIndex(idx)
    \/ \E idx \in ReadIndexes : GetMember(idx)
    \/ \E path \in Paths : PathGet(path)

JsonSpecInit == BlazeOff /\ ThreadInit /\ GcInit /\ JsonInit

SpecJson == JsonSpecInit /\ [][JsonNext]_vars

\* ------------------------------------------------------------------------
\* Loose equality
\* ------------------------------------------------------------------------
\* what a->num == b->num compares: the double of a Number or of a Bool; -0.0 equals 0.0
NumKey(val) ==
    IF val.tag = "BOOL" THEN [cls |-> "int", m |-> IF val.num # 0 THEN 1 ELSE 0, e |-> 0]
    ELSE IF ~IsFp(val) \/ val.fp.cls = "-0" THEN [cls |-> "int", m |-> val.num, e |-> 0]
    ELSE [cls |-> val.fp.cls, m |-> val.num, e |-> val.fp.exp]

\* av == bv on doubles: a NaN equals nothing
DblEq(a, b) == NumKey(a).cls # "nan" /\ NumKey(a) = NumKey(b)

\* an equality that never holds between Values of different tags
snask_value_eq_loose_by_tag(a, b, same_ref) ==
    IF a.tag # b.tag THEN FALSE
    ELSE IF a.tag = "NIL" THEN TRUE
    ELSE IF a.tag \in {"NUM", "BOOL"} THEN DblEq(a, b)
    ELSE IF a.tag = "STR" THEN a.ptr = b.ptr
    ELSE same_ref

\* same_ref: a->ptr == b->ptr, the two Values refer to the same Object
snask_value_eq_loose(a, b, same_ref) ==
    IF a.tag = "NIL" \/ b.tag = "NIL" THEN a.tag = b.tag
    ELSE IF a.tag \in {"NUM", "BOOL"} /\ b.tag \in {"NUM", "BOOL"} THEN DblEq(a, b)
    ELSE IF a.tag = "STR" /\ b.tag = "STR" THEN a.ptr = b.ptr
    ELSE IF a.tag = "OBJ" /\ b.tag = "OBJ" THEN same_ref
    ELSE FALSE

\* ------------------------------------------------------------------------
\* Strict equality
\* ------------------------------------------------------------------------
\* a strict equality in which a Nil on the left equals everything
snask_value_strict_eq_left(a, b, same_ref) ==
    IF a.tag = "NIL" THEN TRUE
    ELSE IF a.tag # b.tag THEN FALSE
    ELSE IF a.tag = "NUM" THEN DblEq(a, b)
    ELSE IF a.tag = "BOOL" THEN (a.num # 0) = (b.num # 0)
    ELSE IF a.tag = "STR" THEN a.ptr = b.ptr
    ELSE same_ref

snask_value_strict_eq(a, b, same_ref) ==
    IF a.tag # b.tag THEN FALSE
    ELSE IF a.tag = "NIL" THEN TRUE
    ELSE IF a.tag = "NUM" THEN DblEq(a, b)
    ELSE IF a.tag = "BOOL" THEN (a.num # 0) = (b.num # 0)
    ELSE IF a.tag = "STR" THEN a.ptr = b.ptr
    ELSE same_ref

\* a strict equality that compares as the loose one does
s_eq_strict_as_loose(a, b, same_ref) == make_bool(snask_value_eq_loose(a, b, same_ref))

s_eq_strict(a, b, same_ref) == make_bool(snask_value_strict_eq(a, b, same_ref))

s_eq(a, b, same_ref) == make_bool(snask_value_eq_loose(a, b, same_ref))

\* ------------------------------------------------------------------------
\* Query string and Cookie lookup
\* ------------------------------------------------------------------------
\* the while loop of blaze_qs_get: p is the rest of the query string, turns the number of
\* turns left of the strlen + 1 in which a scan that consumes a byte per turn ends; NoValue
\* stands for a scan still running after them
RECURSIVE QsLoop(_, _, _)
QsLoop(p, k, turns) ==
    LET pair == BeforeChr(p, "&")
    IN  IF p = << >> THEN make_nil
        ELSE IF turns = 0 THEN NoValue
        ELSE IF BeforeChr(pair, "=") = k
             THEN make_str(IF HasChr(pair, "=") THEN AfterChr(pair, "=") ELSE << >>)
        ELSE IF ~HasChr(p, "&") THEN make_nil
        ELSE QsLoop(AfterChr(p, "&"), k, turns - 1)

blaze_qs_get(qs, key) ==
    IF qs.tag # "STR" \/ key.tag # "STR" THEN make_nil
    ELSE QsLoop(qs.ptr, key.ptr, strlen(qs.ptr) + 1)

\* while (*p == ' ' || *p == '\t' || *p == ';') p++
RECURSIVE CookieSkip(_)
CookieSkip(p) ==
    IF p # << >> /\ Head(p).t \in {" ", "\t", ";"} THEN CookieSkip(Tail(p)) ELSE p

\* the while loop of blaze_cookie_get
RECURSIVE CookieLoop(_, _, _)
CookieLoop(p, k, turns) ==
    LET q == CookieSkip(p)
        pair == BeforeChr(q, ";")
    IN  IF p = << >> THEN make_nil
        ELSE IF turns = 0 THEN NoValue
        ELSE IF HasChr(pair, "=") /\ BeforeChr(pair, "=") = k
             THEN make_str(AfterChr(pair, "="))
        ELSE IF ~HasChr(q, ";") THEN make_nil
        ELSE CookieLoop(AfterChr(q, ";"), k, turns - 1)

blaze_cookie_get(cookie_header, name) ==
    IF cookie_header.tag # "STR" \/ name.tag # "STR" THEN make_nil
    ELSE CookieLoop(cookie_header.ptr, name.ptr, strlen(cookie_header.ptr) + 1)

\* ------------------------------------------------------------------------
\* A script that calls the helpers on a Value
\* ------------------------------------------------------------------------
QsAlphabet == {"a", "b", "=", "&"}
CookieAlphabet == {"a", "=", ";", " "}

StringsOver(alphabet, len) ==
    UNION { { make_str(CatAll([i \in 1..n |-> Str(f[i])])) : f \in [1..n -> alphabet] } : n \in 0..len }

QueryStrings == StringsOver(QsAlphabet, MaxQsLen)

CookieHeaders ==
    StringsOver(CookieAlphabet, MaxQsLen)
    \cup { make_str(CatAll(<< Str("a"), Str("="), Str("1"), Str(";"), Str(" "), Str("b"),
                              Str("="), Str("2") >>)),
           make_str(CatAll(<< Str("b"), Str(";"), Str("\t"), Str("b"), Str("="), Str("a"),
                              Str("="), Str("a"), Str(";"), Str("b"), Str("="), Str("1") >>)) }

ConcatValues == { make_str(Str("a")), make_str(<< >>), make_num_val(1), make_nil }

\* Values that are no String where a path is expected
WrongPaths == { make_num_val(0), make_nil, make_obj(<< >>) }

LookupKeys ==
    { make_str(<< >>), make_str(Str("a")), make_str(Str("b")), make_str(Cat(Str("a"), Str("b"))),
      make_str(Cat(Str("a"), Str("="))), make_str(Cat(Str(" "), Str("a"))), make_num_val(1) }

EqValues ==
    { make_nil, make_bool(TRUE), make_bool(FALSE),
      make_num_val(0), make_num_val(1), make_num_val(2), make_num_fp("dec", 5, -1),
      make_num_fp("nan", 0, 0), make_num_fp("inf", 0, 0), make_num_fp("-0", 0, 0),
      make_str(<< >>), make_str(Str("1")), make_str(Str("0")), make_str(Str("a")),
      make_str(Str("true")),
      make_obj(<< >>), make_obj(<< Entry(Str("a"), make_num_val(1)) >>) }

\* ------------------------------------------------------------------------
\* calc_eval: the shunting-yard evaluator
\* ------------------------------------------------------------------------
\* the slots of vals and of ops
CalcSlots == 256

\* a double that the four operations give from small integers, as the fraction n / d
CalcNum(n) == [n |-> n, d |-> 1]

calc_prec(op) ==
    IF op \in {"+", "-"} THEN 1 ELSE IF op \in {"*", "/"} THEN 2 ELSE 0

calc_apply(op, a, b) ==
    IF op = "+" THEN [ok |-> TRUE, r |-> [n |-> a.n * b.d + b.n * a.d, d |-> a.d * b.d]]
    ELSE IF op = "-" THEN [ok |-> TRUE, r |-> [n |-> a.n * b.d - b.n * a.d, d |-> a.d * b.d]]
    ELSE IF op = "*" THEN [ok |-> TRUE, r |-> [n |-> a.n * b.n, d |-> a.d * b.d]]
    ELSE IF op = "/" /\ b.n # 0 THEN [ok |-> TRUE, r |-> [n |-> a.n * b.d, d |-> a.d * b.n]]
    ELSE [ok |-> FALSE, r |-> CalcNum(0)]

\* the text after its first byte
CalcGet(p) == IF Head(p).n = 1 THEN Tail(p) ELSE << [Head(p) EXCEPT !.n = @ - 1] >> \o Tail(p)

\* calc_skip_ws
CalcSkipWs(p) == IF p # << >> /\ Head(p).t = " " THEN Tail(p) ELSE p

\* strtod on a text that starts with a digit: the value of the leading digits and the rest
RECURSIVE CalcStrtod(_, _)
CalcStrtod(p, acc) ==
    IF p = << >> \/ DigitVal(Head(p).t) < 0 THEN [v |-> CalcNum(acc), rest |-> p]
    ELSE CalcStrtod(CalcGet(p), acc * 10 + DigitVal(Head(p).t))

\* the loop that applies the operators on top of ops while they are no '(' and their
\* precedence is at least min_prec
RECURSIVE CalcReduce(_, _, _)
CalcReduce(vals, ops, min_prec) ==
    IF ops = << >> \/ ops[Len(ops)] = "(" \/ calc_prec(ops[Len(ops)]) < min_prec
    THEN [ok |-> TRUE, vals |-> vals, ops |-> ops]
    ELSE IF Len(vals) < 2 THEN [ok |-> FALSE, vals |-> vals, ops |-> ops]
    ELSE LET r == calc_apply(ops[Len(ops)], vals[Len(vals) - 1], vals[Len(vals)])
         IN  IF ~r.ok THEN [ok |-> FALSE, vals |-> vals, ops |-> ops]
             ELSE CalcReduce(Append(SubSeq(vals, 1, Len(vals) - 2), r.r),
                             SubSeq(ops, 1, Len(ops) - 1), min_prec)

CalcState(halt, p, vals, ops, expect_value) ==
    [halt |-> halt, p |-> p, vals |-> vals, ops |-> ops, expect_value |-> expect_value]

\* one turn of the while (1) loop of calc_eval_c; vals and ops are the slots 0 .. vtop and
\* 0 .. otop, halt is "run", "end" (the break) or "fail" (return 0)
CalcTurn(s) ==
    LET p == CalcSkipWs(s.p)
        c == IF p = << >> THEN "" ELSE Head(p).t
        fail == CalcState("fail", p, s.vals, s.ops, s.expect_value)
    IN  IF p = << >> THEN CalcState("end", p, s.vals, s.ops, s.expect_value)
        ELSE IF c = "(" THEN CalcState("run", CalcGet(p), s.vals, Append(s.ops, "("), TRUE)
        ELSE IF c = ")"
        THEN LET r == CalcReduce(s.vals, s.ops, 1)
             IN  IF ~r.ok \/ r.ops = << >> THEN fail
                 ELSE CalcState("run", CalcGet(p), r.vals, SubSeq(r.ops, 1, Len(r.ops) - 1), FALSE)
        ELSE IF c \in {"+", "-", "*", "/"} /\ ~s.expect_value
        THEN LET r == CalcReduce(s.vals, s.ops, calc_prec(c))
             IN  IF ~r.ok THEN fail
                 ELSE CalcState("run", CalcGet(p), r.vals, Append(r.ops, c), TRUE)
        ELSE IF s.expect_value /\ c \in {"+", "-"}
        THEN LET q == CalcSkipWs(CalcGet(p))
                 num == CalcStrtod(q, 0)
             IN  IF q = << >> \/ DigitVal(Head(q).t) < 0 THEN fail
                 ELSE CalcState("run", num.rest,
                                Append(s.vals, IF c = "-" THEN [num.v EXCEPT !.n = 0 - @] ELSE num.v),
                                s.ops, FALSE)
        ELSE IF DigitVal(c) >= 0
        THEN LET num == CalcStrtod(p, 0)
             IN  CalcState("run", num.rest, Append(s.vals, num.v), s.ops, FALSE)
        ELSE fail

\* the state after a turn n taken from s, with vmax and omax, the highest vtop and otop so
\* far. A store to slot 256 of vals or ops is outside the array (undefined behaviour): the
\* run is followed no further, halt is "overflow"
CalcMax(s, n) ==
    LET vm == IF Len(n.vals) - 1 > s.vmax THEN Len(n.vals) - 1 ELSE s.vmax
        om == IF Len(n.ops) - 1 > s.omax THEN Len(n.ops) - 1 ELSE s.omax
    IN  [halt |-> IF vm >= CalcSlots \/ om >= CalcSlots THEN "overflow" ELSE n.halt,
         p |-> n.p, vals |-> n.vals, ops |-> n.ops, expect_value |-> n.expect_value,
         vmax |-> vm, omax |-> om]

\* a loop that has ended takes no turn
CalcTurnMax(s) == IF s.halt # "run" THEN s ELSE CalcMax(s, CalcTurn(s))

\* the while (1) loop followed for up to turns turns, the first half of them first
RECURSIVE CalcLoop(_, _)
RECURSIVE CalcRest(_, _)
CalcLoop(s, turns) ==
    IF turns <= 1 THEN CalcTurnMax(s)
    ELSE CalcRest(CalcLoop(s, turns \div 2), turns - turns \div 2)

CalcRest(half, turns) == IF half.halt # "run" THEN half ELSE CalcLoop(half, turns)

\* the number of bytes of the pieces lo .. hi of expr
RECURSIVE CalcBytes(_, _, _)
CalcBytes(expr, lo, hi) ==
    IF lo > hi THEN 0
    ELSE IF lo = hi THEN expr[lo].n
    ELSE CalcBytes(expr, lo, (lo + hi) \div 2) + CalcBytes(expr, (lo + hi) \div 2 + 1, hi)

\* what calc_eval_c returns after the while (1) loop run and the final loop r over ops
CalcResult(run, r) ==
    [ok |-> r.ok /\ r.ops = << >> /\ Len(r.vals) = 1,
     result |-> IF r.ok /\ r.ops = << >> /\ Len(r.vals) = 1 THEN r.vals[1] ELSE CalcNum(0),
     overflow |-> run.halt = "overflow", vmax |-> run.vmax, omax |-> run.omax,
     vtop |-> Len(r.vals) - 1, otop |-> Len(r.ops) - 1]

CalcFinish(run) ==
    CalcResult(run, IF run.halt = "end" THEN CalcReduce(run.vals, run.ops, 1)
                    ELSE [ok |-> FALSE, vals |-> run.vals, ops |-> run.ops])

\* calc_eval_c: ok and the result, with the highest and the last stack indices; every turn
\* of the loop but the last one consumes a byte
calc_eval_c(expr) ==
    CalcFinish(CalcLoop([halt |-> "run", p |-> expr, vals |-> << >>, ops |-> << >>,
                         expect_value |-> TRUE, vmax |-> -1, omax |-> -1],
                        CalcBytes(expr, 1, Len(expr)) + 1))

CalcValue(run) == [tag |-> IF run.ok THEN "NUM" ELSE "NIL", run |-> run]

\* calc_eval: Nil when expr is no String or the evaluation fails, the Number otherwise
calc_eval(expr) ==
    IF expr.tag # "STR" THEN CalcValue([calc_eval_c(<< >>) EXCEPT !.ok = FALSE])
    ELSE CalcValue(calc_eval_c(expr.ptr))

CalcAlphabet == {"1", "2", "+", "-", "*", "/", "(", ")"}

\* k copies of the two bytes a b
Copies(a, b, k) == [i \in 1..(2 * k) |-> [t |-> IF i % 2 = 1 THEN a ELSE b, n |-> 1]]

\* the expressions a script evaluates: the short ones, the deepest nesting and the longest
\* run of numbers that fit the stacks, and those one longer
CalcExprs ==
    StringsOver(CalcAlphabet, MaxExprLen)
    \cup { make_str(Cat(Rep("(", CalcSlots), Cat(Str("1"), Rep(")", CalcSlots)))),
           make_str(Cat(Rep("(", CalcSlots + 1), Cat(Str("1"), Rep(")", CalcSlots + 1)))),
           make_str(Copies("1", " ", CalcSlots)),
           make_str(Copies("1", " ", CalcSlots + 1)),
           make_str(Copies("1", "+", CalcSlots) \o Str("1")),
           make_str(CatAll(<< Str("1"), Str(" "), Str("+"), Str(" "), Str("2"), Str("*"),
                              Str("("), Str("2"), Str("-"), Str("1"), Str(")"), Str("/"),
                              Str("2") >>)) }

HelperValues == EqValues \cup QueryStrings \cup CookieHeaders \cup CalcExprs

\* the script holds one Value and has called nothing yet
HelperInit ==
    /\ json_pc = "value"
    /\ json_val \in HelperValues
    /\ json_origin = "any"
    /\ json_mode = "none"
    /\ json_text = << >>
    /\ json_silent = NoValue
    /\ json_ex = NoValue
    /\ json_round = 0
    /\ sj_op = NoSjOp
    /\ sj_ops = 0

\* a == b and b == a, or the strict form of both, on the Value at hand and b; same_ref tells
\* whether the two Values refer to the same Object
EqOp(op, b, same_ref, ret, rev) ==
    [op |-> op, arr |-> json_val, arg |-> b, same_ref |-> same_ref, ret |-> ret, rev |-> rev]

\* two Values that refer to the same Object are the same Value
SameRefs(a, b) == IF a.tag = "OBJ" /\ a = b THEN BOOLEAN ELSE {FALSE}

HelperCall(op) ==
    /\ json_pc = "value"
    /\ sj_op' = op
    /\ UNCHANGED << json_pc, json_val, json_origin, json_mode, json_text, json_silent, json_ex,
                    json_round, sj_ops >>
    /\ UNCHANGED not_json_vars

LooseEq(b, same_ref) ==
    HelperCall(EqOp("eq", b, same_ref, s_eq(json_val, b, same_ref), s_eq(b, json_val, same_ref)))

StrictEq(b, same_ref) ==
    HelperCall(EqOp("eq_strict", b, same_ref, s_eq_strict(json_val, b, same_ref),
                    s_eq_strict(b, json_val, same_ref)))

QsGet(key) == HelperCall(SjOp("qs_get", key, make_nil, blaze_qs_get(json_val, key), FALSE))

CookieGet(name) ==
    HelperCall(SjOp("cookie_get", name, make_nil, blaze_cookie_get(json_val, name), FALSE))

JsonGet(key) == HelperCall(SjOp("get", key, make_nil, json_get(json_val, key), FALSE))

JsonHas(key) == HelperCall(SjOp("has", key, make_nil, json_has(json_val, key), FALSE))

Concat(x) == HelperCall(SjOp("concat", x, make_nil, s_concat(json_val, x), FALSE))

ParseValue == HelperCall(SjOp("parse", make_nil, make_nil, json_parse(json_val), FALSE))

ParseValueEx == HelperCall(SjOp("parse_ex", make_nil, make_nil, json_parse_ex(json_val), FALSE))

\* each call is made on the Values of its own input set
\* the part of blaze_run before the accept loop: ret is the Bool left in out, server_fd the
\* state of the listening socket ("none" when socket() was not called or failed), loop
\* whether the accept loop is entered; sock, bnd and lstn tell whether socket, bind and
\* listen succeed
blaze_run_setup(port_val, routes_val, sock, bnd, lstn) ==
    IF port_val.tag # "NUM" \/ routes_val.tag # "OBJ"
    THEN [ret |-> make_bool(FALSE), server_fd |-> "none", loop |-> FALSE]
    ELSE IF CInt(port_val) <= 0 \/ CInt(port_val) > 65535
    THEN [ret |-> make_bool(FALSE), server_fd |-> "none", loop |-> FALSE]
    ELSE IF ~sock THEN [ret |-> make_bool(FALSE), server_fd |-> "none", loop |-> FALSE]
    ELSE IF ~bnd THEN [ret |-> make_bool(FALSE), server_fd |-> "closed", loop |-> FALSE]
    ELSE IF ~lstn THEN [ret |-> make_bool(FALSE), server_fd |-> "closed", loop |-> FALSE]
    ELSE [ret |-> make_bool(TRUE), server_fd |-> "open", loop |-> TRUE]

\* the ports a script passes to blaze_run: 65535.5 and 0.5 are Numbers that are no integer
Ports ==
    { make_num_val(0), make_num_val(1), make_num_val(8080), make_num_val(65535),
      make_num_val(65536), make_num_val(-1), make_num_fp("dec", 655355, -1),
      make_num_fp("dec", 5, -1), make_str(Str("8080")), make_nil, make_bool(TRUE) }

\* blaze_run(port, routes) with the Value at hand as the route table
BlazeRun(port_val, sock, bnd, lstn) ==
    HelperCall([op |-> "blaze_run", arr |-> json_val, arg |-> port_val,
                sock |-> sock, bnd |-> bnd, lstn |-> lstn,
                out |-> blaze_run_setup(port_val, json_val, sock, bnd, lstn)])

\* calc_eval(expr) on the Value at hand
CalcEval ==
    HelperCall([op |-> "calc_eval", arr |-> json_val, out |-> calc_eval(json_val)])

HelperNext ==
    \/ json_val \in QueryStrings \cup EqValues /\ \E key \in LookupKeys : QsGet(key)
    \/ json_val \in CookieHeaders \cup EqValues /\ \E name \in LookupKeys : CookieGet(name)
    \/ json_val \in EqValues /\ \E key \in LookupKeys : JsonGet(key)
    \/ json_val \in EqValues /\ \E key \in LookupKeys : JsonHas(key)
    \/ json_val \in EqValues /\ \E x \in ConcatValues : Concat(x)
    \/ json_val \in EqValues /\ ParseValue
    \/ json_val \in EqValues /\ ParseValueEx
    \/ json_val \in EqValues /\ \E idx \in WrongIndexes : ArrGet(idx)
    \/ json_val \in EqValues /\ \E idx \in WrongIndexes : JsonIndex(idx)
    \/ json_val \in EqValues /\ \E idx \in WrongIndexes : GetMember(idx)
    \/ json_val \in EqValues /\ \E path \in WrongPaths : PathGet(path)
    \/ json_val \in EqValues
          /\ \E b \in EqValues : \E same_ref \in SameRefs(json_val, b) : LooseEq(b, same_ref)
    \/ json_val \in EqValues
          /\ \E b \in EqValues : \E same_ref \in SameRefs(json_val, b) : StrictEq(b, same_ref)
    \/ json_val \in CalcExprs \cup EqValues /\ CalcEval
    \/ json_val \in EqValues
          /\ \E port_val \in Ports : \E sock, bnd, lstn \in BOOLEAN :
                BlazeRun(port_val, sock, bnd, lstn)

HelperSpecInit == BlazeOff /\ ThreadInit /\ GcInit /\ HelperInit

SpecHelper == HelperSpecInit /\ [][HelperNext]_vars

\* ------------------------------------------------------------------------
\* Claims about the JSON engine
\* ------------------------------------------------------------------------
\* the script has serialised the Value at hand and parsed the text silently
Serialised == json_pc = "text" /\ json_mode \in {"compact", "pretty"}

\* C15: for every Nil, Bool, Number and String value v, the silent parse of stringify(v) is
\* loosely equal to v.
C15_RoundTrip ==
    (Serialised /\ json_val.tag \in {"NIL", "BOOL", "NUM", "STR"} /\ json_silent # NoValue)
        => snask_value_eq_loose(json_silent, json_val, FALSE)

\* the result Object of an explicit call reports success
ResultOk(r) == r.tag = "OBJ" /\ Len(r.ptr) = 3 /\ r.ptr[1] = Entry(Str("ok"), make_bool(TRUE))

\* C16: for every Value, the explicit parse of the text stringify produces for it, in compact
\* and in pretty mode, succeeds with ok = true.
C16_StringifyWellFormed == (Serialised /\ json_ex # NoValue) => ResultOk(json_ex)

\* Well-formed JSON (RFC 8259), read off the grammar.  Each recogniser returns the index after
\* the construct that starts at i, or 0 when there is none.
ControlAtoms == {"\n", "\r", "\t", "\f", "BS", "SOH", "DLE", "DC1", "NUL"}

RECURSIVE WfWs(_, _)
WfWs(u, i) == IF JpAt(u, i) \in {" ", "\n", "\r", "\t"} THEN WfWs(u, i + 1) ELSE i

\* the characters of a string after the opening quote
RECURSIVE WfChars(_, _)
WfChars(u, i) ==
    LET c == JpAt(u, i)
        esc == JpAt(u, i + 1)
        j == PlainEnd(u, i)
    IN  IF c = "NUL" THEN 0
        ELSE IF c = "\"" THEN i + 1
        ELSE IF c = "\\"
             THEN IF esc \in {"\"", "\\", "/", "b", "f", "n", "r", "t"} THEN WfChars(u, i + 2)
                  ELSE IF esc = "u" /\ \A k \in 1..4 : HexVal(JpAt(u, i + 1 + k)) >= 0
                       THEN WfChars(u, i + 6)
                  ELSE 0
        ELSE IF \E k \in i..(j - 1) : u[k].t \in ControlAtoms THEN 0
        ELSE WfChars(u, j)

WfString(u, i) == IF JpAt(u, i) = "\"" THEN WfChars(u, i + 1) ELSE 0

\* number = [ minus ] int [ frac ] [ exp ]
WfNumber(u, i) ==
    LET j == IF JpAt(u, i) = "-" THEN i + 1 ELSE i
        intEnd == IF JpAt(u, j) = "0" THEN j + 1 ELSE j + DigitsRun(u, j)
        nF == DigitsRun(u, intEnd + 1)
        fracEnd == IF JpAt(u, intEnd) = "." THEN intEnd + 1 + nF ELSE intEnd
        eAt == IF JpAt(u, fracEnd + 1) \in {"-", "+"} THEN fracEnd + 2 ELSE fracEnd + 1
        nE == DigitsRun(u, eAt)
    IN  IF DigitsRun(u, j) = 0 THEN 0
        ELSE IF JpAt(u, intEnd) = "." /\ nF = 0 THEN 0
        ELSE IF JpAt(u, fracEnd) \in {"e", "E"} THEN (IF nE = 0 THEN 0 ELSE eAt + nE)
        ELSE fracEnd

RECURSIVE WfValue(_, _)
RECURSIVE WfMembers(_, _)
RECURSIVE WfElements(_, _)

\* member *( "," member ) "}" with i at the first member
WfMembers(u, i) ==
    LET k == WfString(u, i)
        c == WfWs(u, k)
        val == WfValue(u, WfWs(u, c + 1))
        d == WfWs(u, val)
    IN  IF k = 0 \/ JpAt(u, c) # ":" \/ val = 0 THEN 0
        ELSE IF JpAt(u, d) = "}" THEN d + 1
        ELSE IF JpAt(u, d) = "," THEN WfMembers(u, WfWs(u, d + 1))
        ELSE 0

\* value *( "," value ) "]" with i at the first value
WfElements(u, i) ==
    LET val == WfValue(u, i)
        d == WfWs(u, val)
    IN  IF val = 0 THEN 0
        ELSE IF JpAt(u, d) = "]" THEN d + 1
        ELSE IF JpAt(u, d) = "," THEN WfElements(u, WfWs(u, d + 1))
        ELSE 0

WfLiteral(u, i, lit) == \A k \in 1..Len(lit) : JpAt(u, i + k - 1) = lit[k]

WfValue(u, i) ==
    LET c == JpAt(u, i)
        j == WfWs(u, i + 1)
    IN  IF c = "\"" THEN WfString(u, i)
        ELSE IF c = "{" THEN (IF JpAt(u, j) = "}" THEN j + 1 ELSE WfMembers(u, j))
        ELSE IF c = "[" THEN (IF JpAt(u, j) = "]" THEN j + 1 ELSE WfElements(u, j))
        ELSE IF WfLiteral(u, i, << "n", "u", "l", "l" >>) THEN i + 4
        ELSE IF WfLiteral(u, i, << "t", "r", "u", "e" >>) THEN i + 4
        ELSE IF WfLiteral(u, i, << "f", "a", "l", "s", "e" >>) THEN i + 5
        ELSE IF c = "-" \/ DigitVal(c) >= 0 THEN WfNumber(u, i)
        ELSE 0

\* the text is one JSON value, with whitespace allowed around it
WellFormedJson(text) ==
    LET u == Units(text)
        e == WfValue(u, WfWs(u, 1))
    IN  e # 0 /\ JpAt(u, WfWs(u, e)) = "NUL"

\* both parses of the text at hand have been made
ParsedBoth == json_pc = "text" /\ json_silent # NoValue /\ json_ex # NoValue

\* the result Object of an explicit call reports a failure with a message
ResultFailed(r) ==
    /\ r.tag = "OBJ" /\ Len(r.ptr) = 3
    /\ r.ptr[1] = Entry(Str("ok"), make_bool(FALSE))
    /\ r.ptr[2] = Entry(Str("value"), make_nil)
    /\ r.ptr[3].name = Str("error") /\ r.ptr[3].value.tag = "STR" /\ r.ptr[3].value.ptr # << >>

\* C17: for every text, the explicit parse returns {ok: true, value, error: ""} exactly when the
\* text is one well-formed JSON value followed only by whitespace, and {ok: false, value: Nil,
\* error: a message} otherwise; the silent parse returns the same value, and Nil on failure.
C17_ParseContract ==
    ParsedBoth =>
        IF WellFormedJson(json_text)
        THEN /\ ResultOk(json_ex)
             /\ json_ex.ptr[2] = Entry(Str("value"), json_silent)
             /\ json_ex.ptr[3] = Entry(Str("error"), make_str(<< >>))
        ELSE ResultFailed(json_ex) /\ json_silent = make_nil

\* the names of an Object, in the order of its entries
KeysOf(o) == [k \in 1..Len(o) |-> o[k].name]

\* the names "0", "1", ..., "n-1"
IndexKeys(n) == [k \in 1..n |-> FmtD(k - 1)]

\* the text is a JSON object: it opens with a brace and closes with one
BraceText(text) == Head(text).t = "{" /\ text[Len(text)].t = "}"

\* C18: stringify renders every Object as a JSON object with its entries in insertion order (the
\* text reads back as an Object with the same names in the same order); an Object made by
\* parsing a JSON array or by arrayPush / arraySet on a new array has the names "0" .. "n-1"
\* and is rendered as {"0":...,"1":...}, never as a JSON array.
C18_ObjectRendering ==
    /\ (json_pc \in {"value", "text"} /\ json_origin = "array")
           => json_val.tag = "OBJ" /\ KeysOf(json_val.ptr) = IndexKeys(Len(json_val.ptr))
    /\ (Serialised /\ json_val.tag = "OBJ")
           => /\ BraceText(json_text)
              /\ json_silent.tag = "OBJ" => KeysOf(json_silent.ptr) = KeysOf(json_val.ptr)

\* an Object parsed from a JSON array and then extended by an array helper has been
\* serialised and read back
C18_Witness ==
    /\ Serialised /\ json_origin = "array" /\ json_round = 1 /\ sj_ops >= 1
    /\ Len(json_val.ptr) >= 2
    /\ json_silent.tag = "OBJ"

\* ------------------------------------------------------------------------
\* Claims about the array helpers and the path lookup
\* ------------------------------------------------------------------------
\* the dot-separated segments of a path, left to right
RECURSIVE SplitDots(_)
SplitDots(p) ==
    IF p = << >> THEN << >>
    ELSE IF ~HasChr(p, ".") THEN << p >>
    ELSE IF AfterChr(p, ".") = << >> THEN << BeforeChr(p, "."), << >> >>
    ELSE << BeforeChr(p, ".") >> \o SplitDots(AfterChr(p, "."))

AllDigits(seg) == seg # << >> /\ \A k \in 1..Len(seg) : seg[k].t \in {"0", "1", "2", "3", "4", "5", "6", "7", "8", "9"}

\* the entry of the Object o that the segment seg selects, 0 when it selects none: an
\* all-digit segment is a position, any other segment is a name
Selected(o, seg) ==
    IF AllDigits(seg) THEN (IF atoi(seg) < Len(o) THEN atoi(seg) + 1 ELSE 0)
    ELSE IF \E k \in 1..Len(o) : o[k].name = seg
         THEN CHOOSE k \in 1..Len(o) : o[k].name = seg /\ \A j \in 1..(k - 1) : o[j].name # seg
    ELSE 0

\* walking the segments from the Value cur: where the walk ends and why
RECURSIVE Walk(_, _)
Walk(cur, segs) ==
    IF segs = << >> THEN [ok |-> TRUE, value |-> cur, why |-> "resolved", seg |-> << >>]
    ELSE IF cur.tag # "OBJ" THEN [ok |-> FALSE, value |-> make_nil, why |-> "non-container", seg |-> Head(segs)]
    ELSE IF Selected(cur.ptr, Head(segs)) = 0
         THEN [ok |-> FALSE, value |-> make_nil, why |-> "not found", seg |-> Head(segs)]
    ELSE Walk(cur.ptr[Selected(cur.ptr, Head(segs))].value, Tail(segs))

\* the last call was sjson_path_get with a path whose segments are all non-empty
PathGetDone ==
    /\ sj_op.op = "path_get"
    /\ sj_op.arg.tag = "STR"
    /\ \A k \in 1..Len(SplitDots(sj_op.arg.ptr)) : SplitDots(sj_op.arg.ptr)[k] # << >>

\* C19: pathGet walks the dot-separated segments left to right, all-digit segments as
\* positions and the others as names; it returns {ok: true, value, error: ""} exactly when
\* every segment resolves, and otherwise {ok: false, value: Nil} with an error that names the
\* first segment not found or reports that a non-container was reached.
C19_PathGet ==
    PathGetDone =>
        LET w == Walk(sj_op.arr, SplitDots(sj_op.arg.ptr))
        IN  IF w.ok THEN sj_op.ret = ResultObject(TRUE, w.value, << >>)
            ELSE /\ ResultFailed(sj_op.ret)
                 /\ IF w.why = "not found" THEN Contains(sj_op.ret.ptr[3].value.ptr, w.seg)
                    ELSE sj_op.ret.ptr[3].value.ptr = Str("path_get: alvo nao e objeto/array.")

\* the last call was sjson_arr_set on an Object with an index that is not negative
ArrSetDone ==
    /\ sj_op.op = "arr_set"
    /\ sj_op.arr.tag = "OBJ"
    /\ sj_op.arg.tag = "NUM" /\ ~IsFp(sj_op.arg) /\ sj_op.arg.num >= 0

\* C20: arraySet(obj, idx, v) with idx >= count grows the Object to length idx + 1, fills the
\* positions count .. idx - 1 with Nil, stores v at idx and leaves the earlier entries as they
\* were; with 0 <= idx < count it replaces only the value at idx.
C20_ArraySet ==
    ArrSetDone =>
        LET before == sj_op.arr.ptr
            after == json_val.ptr
            idx == sj_op.arg.num
            count == Len(before)
        IN  /\ ~sj_op.fault
            /\ json_pc = "value"
            /\ sj_op.ret = make_bool(TRUE)
            /\ Len(after) - 1 = (IF idx >= count THEN idx ELSE count - 1)
            /\ after[idx + 1].value = sj_op.value
            /\ \A k \in 1..count : k # idx + 1 => after[k] = before[k]
            /\ \A k \in (count + 1)..idx : after[k].value = make_nil
            /\ idx < count => after[idx + 1].name = before[idx + 1].name

\* ------------------------------------------------------------------------
\* Claims about the Object accessors
\* ------------------------------------------------------------------------
\* json_set has just been called on an Object with a String key
JsonSetDone == sj_op.op = "set" /\ sj_op.arr.tag = "OBJ" /\ sj_op.arg.tag = "STR"

\* C21: set(obj, key, v) on an Object that has the key replaces the value of that entry and
\* leaves the count, the key order and every other entry unchanged; on an Object without the
\* key it appends exactly one entry at the end; in both cases get(obj, key) then returns v.
C21_SetUpsert ==
    JsonSetDone =>
        LET before == sj_op.arr.ptr
            after == json_val.ptr
            key == sj_op.arg.ptr
            has == \E k \in 1..Len(before) : before[k].name = key
        IN  /\ ~sj_op.fault /\ sj_op.ret = make_bool(TRUE)
            /\ has => \E k \in 1..Len(before) :
                          /\ before[k].name = key
                          /\ after = [before EXCEPT ![k].value = sj_op.value]
            /\ ~has => after = Append(before, Entry(key, sj_op.value))
            /\ json_get(json_val, sj_op.arg) = sj_op.value

\* json_set has replaced the value of the second of two entries, and has appended a third one
C21_Witness ==
    /\ JsonSetDone
    /\ Len(sj_op.arr.ptr) = 2
    /\ sj_op.arr.ptr[2].name = sj_op.arg.ptr
    /\ sj_op.arr.ptr[1].name # sj_op.arg.ptr
    /\ json_val.ptr[2].value = sj_op.value
    /\ sj_op.arr.ptr[2].value # sj_op.value

\* the number of digits of the all-digit segment seg after its leading zeros
SigDigits(seg) == strlen(seg) - (IF Head(seg).t = "0" THEN Head(seg).n ELSE 0)

\* the position the all-digit segment seg names is count or more (a segment of at most nine
\* significant digits is below 2^31, so atoi gives its value)
PositionAtLeast(seg, count) == SigDigits(seg) > 9 \/ atoi(seg) >= count

\* an index read (arrayGet, json_index, s_get_member) of an Object with an integer index
IndexReadDone ==
    /\ sj_op.op \in {"arr_get", "index", "get_member"}
    /\ sj_op.arr.tag = "OBJ"
    /\ sj_op.arg.tag = "NUM" /\ ~IsFp(sj_op.arg)

\* pathGet on an Object with a path of one all-digit segment
PathIndexDone ==
    /\ sj_op.op = "path_get"
    /\ sj_op.arr.tag = "OBJ"
    /\ sj_op.arg.tag = "STR" /\ AllDigits(sj_op.arg.ptr)

\* C22: for every Object and every integer index that is negative or >= count, arrayGet,
\* json_index and s_get_member return Nil, pathGet returns ok = false, and arraySet with a
\* negative index returns false and leaves the Object unchanged.
C22_IndexBounds ==
    /\ (IndexReadDone /\ (sj_op.arg.num < 0 \/ sj_op.arg.num >= Len(sj_op.arr.ptr)))
           => sj_op.ret = make_nil
    /\ (PathIndexDone /\ PositionAtLeast(sj_op.arg.ptr, Len(sj_op.arr.ptr)))
           => ResultFailed(sj_op.ret)
    /\ (sj_op.op = "arr_set" /\ sj_op.arr.tag = "OBJ" /\ sj_op.arg.tag = "NUM"
           /\ ~IsFp(sj_op.arg) /\ sj_op.arg.num < 0)
           => sj_op.ret = make_bool(FALSE) /\ ~sj_op.fault /\ json_val = sj_op.arr

\* ------------------------------------------------------------------------
\* Claims about equality
\* ------------------------------------------------------------------------
\* the number a Number or a Bool stands for under loose equality
Numeric(val) == IF val.tag = "BOOL" THEN make_num_val(IF val.num # 0 THEN 1 ELSE 0) ELSE val

\* C23: under loose equality Number and Bool compare by numeric value, Nil equals only Nil, a
\* String never equals a Number or Bool, Strings compare by content and Objects by identity.
C23_LooseEq ==
    sj_op.op = "eq" =>
        LET a == sj_op.arr
            b == sj_op.arg
            numeric == {"NUM", "BOOL"}
        IN  /\ (a.tag \in numeric /\ b.tag \in numeric)
                   => sj_op.ret = make_bool(DblEq(Numeric(a), Numeric(b)))
            /\ (a.tag = "NIL" \/ b.tag = "NIL") => sj_op.ret = make_bool(a.tag = b.tag)
            /\ (a.tag = "STR" /\ b.tag \in numeric) => sj_op.ret = make_bool(FALSE)
            /\ (a.tag \in numeric /\ b.tag = "STR") => sj_op.ret = make_bool(FALSE)
            /\ (a.tag = "STR" /\ b.tag = "STR") => sj_op.ret = make_bool(a.ptr = b.ptr)
            /\ (a.tag = "OBJ" /\ b.tag = "OBJ") => sj_op.ret = make_bool(sj_op.same_ref)

\* Number(1) == Bool(true) has been evaluated and is true
C23_Witness ==
    /\ sj_op.op = "eq"
    /\ sj_op.arr = make_num_val(1) /\ sj_op.arg = make_bool(TRUE)
    /\ sj_op.ret = make_bool(TRUE)

\* C24: for every pair of Values a, b over the five tags, strict and loose equality return a
\* Bool and are symmetric: eq(a, b) = eq(b, a).
C24_EqSymmetric ==
    sj_op.op \in {"eq", "eq_strict"} =>
        /\ sj_op.ret \in {make_bool(TRUE), make_bool(FALSE)}
        /\ sj_op.rev \in {make_bool(TRUE), make_bool(FALSE)}
        /\ sj_op.ret = sj_op.rev

\* Nil and a Number have been compared strictly, both ways
C24_Witness ==
    /\ sj_op.op = "eq_strict"
    /\ sj_op.arr = make_nil /\ sj_op.arg.tag = "NUM"
    /\ sj_op.ret = make_bool(FALSE) /\ sj_op.rev = make_bool(FALSE)

\* ------------------------------------------------------------------------
\* Claims about the query string and Cookie lookup
\* ------------------------------------------------------------------------
\* the pieces of s between the separators c, left to right
RECURSIVE SplitOn(_, _)
SplitOn(s, c) ==
    IF ~HasChr(s, c) THEN << s >> ELSE << BeforeChr(s, c) >> \o SplitOn(AfterChr(s, c), c)

\* a piece without its leading blanks
RECURSIVE LeftTrim(_)
LeftTrim(s) == IF s # << >> /\ Head(s).t \in {" ", "\t"} THEN LeftTrim(Tail(s)) ELSE s

NonEmptyPiece(s) == s # << >>
HasEquals(s) == HasChr(s, "=")

\* the pairs of a query string: its non-empty &-separated pieces
QsPairs(s) == SelectSeq(SplitOn(s, "&"), NonEmptyPiece)

\* the name=value pairs of a Cookie header: its ;-separated pieces that hold a '=', without
\* the blanks that follow the separator
CookiePairs(s) ==
    SelectSeq([i \in 1..Len(SplitOn(s, ";")) |-> LeftTrim(SplitOn(s, ";")[i])], HasEquals)

PairName(pair) == BeforeChr(pair, "=")
PairValue(pair) == IF HasChr(pair, "=") THEN AfterChr(pair, "=") ELSE << >>

\* the value of the first pair named k, Nil when no pair has that name
FirstNamed(pairs, k) ==
    IF \A i \in 1..Len(pairs) : PairName(pairs[i]) # k THEN make_nil
    ELSE make_str(PairValue(pairs[CHOOSE i \in 1..Len(pairs) :
                      PairName(pairs[i]) = k /\ \A j \in 1..(i - 1) : PairName(pairs[j]) # k]))

LookupDone(op) == sj_op.op = op /\ sj_op.arr.tag = "STR" /\ sj_op.arg.tag = "STR"

\* C26: blaze_qs_get returns the value of the first &-separated pair whose name equals the key
\* exactly (the empty string when that pair has no '='), or Nil when no pair has that name;
\* blaze_cookie_get does the same over the ;-separated name=value pairs of a Cookie header;
\* both scans end on every input string.
C26_Lookup ==
    /\ LookupDone("qs_get") => sj_op.ret = FirstNamed(QsPairs(sj_op.arr.ptr), sj_op.arg.ptr)
    /\ LookupDone("cookie_get")
           => sj_op.ret = FirstNamed(CookiePairs(sj_op.arr.ptr), sj_op.arg.ptr)

\* ------------------------------------------------------------------------
\* Claims about operands of the wrong tag
\* ------------------------------------------------------------------------
\* the last call was an Object or string operation with an operand of the wrong tag
WrongTagCall ==
    \/ sj_op.op \in {"get", "has", "set"} /\ (sj_op.arr.tag # "OBJ" \/ sj_op.arg.tag # "STR")
    \/ sj_op.op \in {"index", "arr_get", "arr_set"}
           /\ (sj_op.arr.tag # "OBJ" \/ sj_op.arg.tag # "NUM")
    \/ sj_op.op = "arr_push" /\ sj_op.arr.tag # "OBJ"
    \/ sj_op.op = "path_get" /\ (sj_op.arr.tag # "OBJ" \/ sj_op.arg.tag # "STR")
    \/ sj_op.op \in {"parse", "parse_ex"} /\ sj_op.arr.tag # "STR"
    \/ sj_op.op = "concat" /\ (sj_op.arr.tag # "STR" \/ sj_op.arg.tag # "STR")

\* C25: an Object or string operation (get, set, has, index, arrayGet, arraySet, arrayPush,
\* pathGet, parse, concat) called with an operand of the wrong tag returns Nil or false (for
\* pathGet: Nil or a result with ok = false) without raising a fault, and leaves every Object
\* it was given unchanged.
C25_WrongTag ==
    WrongTagCall =>
        /\ \/ sj_op.ret \in {make_nil, make_bool(FALSE)}
           \/ sj_op.op = "path_get" /\ ResultFailed(sj_op.ret)
        /\ ~sj_op.fault
        /\ json_val = sj_op.arr

ConnPositions == {"recv", "body", "parse", "route", "handler", "respond"}

\* the moves between the stages: Accepted (recv), Reading-Headers (the first recv),
\* Reading-Body (body), Routing (parse, route), Dispatching (handler), Responding (respond),
\* Closed (accept)
StageEdges ==
    { << "accept", "recv" >>, << "recv", "body" >>, << "recv", "accept" >>,
      << "body", "parse" >>, << "parse", "route" >>, << "parse", "accept" >>,
      << "route", "handler" >>, << "route", "accept" >>, << "handler", "respond" >>,
      << "respond", "accept" >> }

\* a step moves forward along the stages, and a step that ends a connection has closed its
\* socket and has written one response when the first read returned data, none otherwise
StageStep ==
    /\ pc' # pc => << pc, pc' >> \in StageEdges
    /\ (pc \in ConnPositions /\ pc' = "accept")
           => /\ client_fd \notin open_fds'
              /\ Len(resp') = IF req # << >> THEN 1 ELSE 0

\* C28: each connection passes through the stages Accepted, Reading-Headers, optional
\* Reading-Body, Routing, optional Dispatching, Responding, Closed only in that order and each
\* at most once: no response bytes are written before routing and dispatch have finished,
\* exactly one response is written for a connection whose first read returned data, none for
\* one whose first read failed, and the connection always ends Closed: a socket that is
\* still open belongs to a connection that is at one of the stages before Closed.
C28_Stages ==
    /\ [][StageStep]_vars
    /\ [](pc \in ConnPositions => resp = << >>)
    /\ [](open_fds # {} => pc \in ConnPositions)

\* a step that ends an attempt (a failed accept, a failed first read, a 400, a 404, a
\* response) leaves the loop at accept
BackToAccept ==
    /\ accept_errs' # accept_errs => pc' = "accept"
    /\ (pc \in ConnPositions /\ (open_fds' # open_fds \/ resp' # resp)) => pc' = "accept"

\* C29: once bind and listen have succeeded blaze_run never returns: after a failed accept, a
\* failed first read, a 400, a 404 or a completed response the loop goes back to accept, so
\* a failure on one connection never stops the server from serving a later one.
C29_LoopForever ==
    /\ [](pc \in ConnPositions \cup {"accept"})
    /\ [][BackToAccept]_vars

\* the decimal digits a text starts with
RECURSIVE LeadingDigits(_)
LeadingDigits(s) ==
    IF s = << >> \/ DigitVal(Head(s).t) < 0 THEN << >>
    ELSE << Head(s) >> \o LeadingDigits(Tail(s))

\* the digits of the Content-Length header of the bytes received, none when the header is
\* absent or its value is negative
LengthDigits ==
    LET h == blaze_find_header(req, "Content-Length")
    IN  IF ~h.found THEN << >> ELSE LeadingDigits(h.value)

\* the Content-Length of the bytes received is n or more
LengthAtLeast(n) ==
    /\ LengthDigits # << >>
    /\ SigDigits(LengthDigits) > 9 \/ atoi(LengthDigits) >= n

\* the body the request carries: the first min(Content-Length, bytes buffered after the
\* header terminator) bytes
CarriedBody ==
    IF ~HasHdrEnd(req) \/ ~LengthAtLeast(1) THEN << >>
    ELSE IF LengthAtLeast(HaveBody(req)) THEN AfterHdrEnd(req)
    ELSE Take(AfterHdrEnd(req), atoi(LengthDigits))

\* a further recv is made only after the header terminator, with fewer body bytes buffered
\* than Content-Length, into a buffer that is not full
ReceiveStep ==
    (pc = "body" /\ req' # req)
        => HasHdrEnd(req) /\ LengthAtLeast(HaveBody(req) + 1) /\ strlen(req) < ReqCap - 1

\* C30: while reading a request the server keeps receiving only while the header terminator
\* has been seen, fewer than Content-Length body bytes are buffered and the buffer is not
\* full; the bytes stored never exceed the buffer capacity minus one; the body handed on is
\* the first min(Content-Length, bytes buffered after the header terminator) bytes, and
\* empty when Content-Length is absent, zero or negative; a request larger than the buffer
\* is still routed and answered rather than rejected.
C30_RequestRead ==
    /\ [][ReceiveStep]_vars
    /\ [](strlen(req) <= ReqCap - 1)
    /\ [](\A k \in 1..Len(dispatch) : dispatch[k].body = CarriedBody)
    /\ []((pc = "accept" /\ strlen(net) > ReqCap - 1 /\ strlen(req) = ReqCap - 1)
             => (Routed /\ Answered /\ resp[1].status # 400))

\* ------------------------------------------------------------------------
\* Claims about the entries of an Object
\* ------------------------------------------------------------------------
\* set, arrayPush or arraySet has just been called on an Object
MutationDone == sj_op.op \in {"set", "arr_push", "arr_set"} /\ sj_op.arr.tag = "OBJ"

\* C31: after any sequence of set, arrayPush, arraySet and parse operations an Object's count
\* equals the number of entries of its keys array and of its values array, and an entry that
\* already existed keeps its index and key.
C31_CountAndIndices ==
    MutationDone =>
        /\ ~sj_op.fault
        /\ json_val.tag = "OBJ"
        /\ Len(json_val.ptr) >= Len(sj_op.arr.ptr)
        /\ \A k \in 1..Len(sj_op.arr.ptr) : json_val.ptr[k].name = sj_op.arr.ptr[k].name

\* no two entries of the Object have the same key
NoDuplicateKey(o) == \A j, k \in 1..Len(o) : o[j].name = o[k].name => j = k

\* C34: after any sequence of set, arrayPush and arraySet operations starting from an empty
\* Object no two entries of the Object have the same key, so get(obj, key) and the
\* stringified output agree on a single value per key.
C34_NoDuplicateKey ==
    (json_pc = "value" /\ json_origin \in {"array", "mixed"} /\ json_round = 0)
        => NoDuplicateKey(json_val.ptr)

\* ------------------------------------------------------------------------
\* Claims about the route table
\* ------------------------------------------------------------------------
\* C32: blaze_run never modifies the route table Object (its count, keys or values) while
\* serving any sequence of requests, including requests that dispatch to a handler and
\* requests answered 400 or 404.
C32_RoutesReadOnly == [][routes' = routes]_vars

\* a second connection has been served from a table of several routes: a handler was called
\* and its response written, with the table as it was at the start
C32_Witness ==
    /\ pc = "accept" /\ conns >= 2
    /\ Len(routes) > 1 /\ routes \in RouteTables
    /\ route_idx > 1
    /\ Len(dispatch) = 1 /\ dispatch[1].resolved
    /\ Answered

\* ------------------------------------------------------------------------
\* Claims about thread handles
\* ------------------------------------------------------------------------
\* the calls that issued pthread_join or pthread_detach on the thread p
JoinsAndDetaches(p) ==
    { k \in 1..Len(thr_ops) :
        thr_ops[k].target = p /\ thr_ops[k].issued \in {"pthread_join", "pthread_detach"} }

\* C35: for any sequence of thread_join and thread_detach calls on one handle the underlying
\* thread is joined or detached at most once in total: a join after a successful join
\* returns false without joining again, and neither a join nor a detach is issued on a
\* thread that has already been joined or detached.
C35_JoinOrDetachOnce ==
    \A k \in 1..Len(thr_ops) :
        thr_ops[k].issued \in {"pthread_join", "pthread_detach"}
            => /\ thr_ops[k].os = "joinable"
               /\ \A j \in JoinsAndDetaches(thr_ops[k].target) :
                     (j < k /\ thr_ops[j].ret = make_bool(TRUE)) => FALSE

\* ------------------------------------------------------------------------
\* Claims about strict equality
\* ------------------------------------------------------------------------
\* C33: strict equality is false whenever the two tags differ (so Number(1) is not strictly
\* equal to Bool(true)), compares same-tag Numbers, Bools and Strings by payload, and holds
\* between two Objects only when they are the same object; whenever two Values are strictly
\* equal they are also loosely equal.
C33_StrictEq ==
    sj_op.op = "eq_strict" =>
        LET a == sj_op.arr
            b == sj_op.arg
        IN  /\ a.tag # b.tag => sj_op.ret = make_bool(FALSE)
            /\ (a.tag = "NUM" /\ b.tag = "NUM") => sj_op.ret = make_bool(DblEq(a, b))
            /\ (a.tag = "BOOL" /\ b.tag = "BOOL") => sj_op.ret = make_bool(a.num = b.num)
            /\ (a.tag = "STR" /\ b.tag = "STR") => sj_op.ret = make_bool(a.ptr = b.ptr)
            /\ (a.tag = "OBJ" /\ b.tag = "OBJ") => sj_op.ret = make_bool(sj_op.same_ref)
            /\ sj_op.ret = make_bool(TRUE) => s_eq(a, b, sj_op.same_ref) = make_bool(TRUE)

\* Number(1) and Bool(true) have been compared strictly and are not equal, though they are
\* loosely equal
C33_Witness ==
    /\ sj_op.op = "eq_strict"
    /\ sj_op.arr = make_num_val(1) /\ sj_op.arg = make_bool(TRUE)
    /\ sj_op.ret = make_bool(FALSE)
    /\ s_eq(sj_op.arr, sj_op.arg, FALSE) = make_bool(TRUE)

InPortRange(val) ==
    /\ val.tag = "NUM"
    /\ IF ~IsFp(val) THEN val.num >= 1 /\ val.num <= 65535
       ELSE /\ val.fp.cls = "dec"
            /\ val.num >= Pow10(0 - val.fp.exp)
            /\ val.num <= 65535 * Pow10(0 - val.fp.exp)

\* C37: blaze_run returns Bool false without accepting any connection when the port is not a
\* Number in 1..65535, the route table is not an Object, or creating, binding or listening on
\* the socket fails; when bind or listen fails the listening socket is closed before
\* returning.
C37_StartFailure ==
    sj_op.op = "blaze_run" =>
        /\ (\/ ~InPortRange(sj_op.arg) \/ sj_op.arr.tag # "OBJ"
            \/ ~sj_op.sock \/ ~sj_op.bnd \/ ~sj_op.lstn)
              => /\ sj_op.out.ret = make_bool(FALSE)
                 /\ ~sj_op.out.loop
                 /\ sj_op.out.server_fd # "open"
        /\ (InPortRange(sj_op.arg) /\ sj_op.arr.tag = "OBJ" /\ sj_op.sock
               /\ (~sj_op.bnd \/ ~sj_op.lstn))
              => sj_op.out.server_fd = "closed"

\* ------------------------------------------------------------------------
\* Claims about calc_eval
\* ------------------------------------------------------------------------
\* C38: for every input expression, including deeply nested parentheses and long operator
\* chains, calc_eval's value-stack and operator-stack indices stay within their 256 slots
\* (never below -1, never above 255).
C38_StackBounds ==
    sj_op.op = "calc_eval" =>
        /\ ~sj_op.out.run.overflow
        /\ sj_op.out.run.vmax <= CalcSlots - 1 /\ sj_op.out.run.omax <= CalcSlots - 1
        /\ sj_op.out.run.vtop >= -1 /\ sj_op.out.run.otop >= -1

====
